---- MODULE Spec2Model ----
(***************************************************************************)
(* A model of the bridge-pool-assignment ingestion pipeline:               *)
(*   fetch  (src/src/fetch/collector.rs)   bounded concurrent retrieval    *)
(*   parse  (src/src/parse/bridge_pool.rs) line-oriented snapshot parser   *)
(*   digest (src/src/utils/digest.rs)      file and entry digests          *)
(*   export (src/src/export/postgres.rs)   transactional persistence       *)
(*                                                                         *)
(* Text is a sequence of atoms.  An atom is a TLA+ string that stands for  *)
(* one character (" ", "\t", "\n") or for a run of non-whitespace          *)
(* characters that the code never looks inside ("bridge-pool-assignment",  *)
(* "2022-04-09", a fingerprint).  Bytes are a sequence of byte atoms.      *)
(***************************************************************************)
EXTENDS Integers, Sequences, FiniteSets, TLC

VARIABLES
    \* ---- digest calls (utils/digest.rs)
    digest_pc,        \* "call" | "files" | "done"
    digest_args,      \* [b1, b2: contents of two files, line, line2: two raw lines]
    digest_out,       \* [f1, f2: file digests of b1, b2; a1, a2: digests of line in
                      \*  each; a3, a4: digests of line2 in each]
    \* ---- one parse call (parse/bridge_pool.rs)
    parse_pc,         \* "call" | "done"
    content,          \* the text handed to parse_single_bridge_pool_file
    parse_result,     \* its Result
    \* ---- fetch_file_contents (fetch/collector.rs)
    fetch_pc,         \* "spawning" | "joining" | "collecting" | "returned"
    remote_files,     \* the entries: a sequence of paths
    spawned,          \* number of tasks spawned so far
    task,             \* task[i]: position of the i-th spawned task
    permits,          \* permits left in the semaphore
    holds,            \* holds[i]: task i owns a permit
    results,          \* results[i]: what join_all yields for task i
    collected,        \* number of results the collecting loop has consumed
    bridge_files,     \* the vector being returned
    errors,           \* the error counter of the collecting loop
    fetch_ret,        \* "none" until fetch_file_contents returns, then "ok" | "err"
    \* ---- export_to_postgres (export/postgres.rs)
    db,               \* the committed store
    tx,               \* the open transaction's view of the store
    export_pc,        \* position inside export_to_postgres
    export_args,      \* [sets: Seq(AssignmentSet), clear: BOOLEAN]
    export_cur,       \* [i: file index, todo: keys of the file not yet inserted]
    export_ret,       \* [status: "none" | "ok" | "err", cause]
    export_hist,      \* ghost: store before the call, calls made so far
    statements,       \* ghost: the statements the store has executed for the call
    \* ---- one parse_assignment_string call (export/postgres.rs)
    assign_pc,        \* "call" | "done"
    assign_arg,       \* the assignment text of one entry
    assign_out,       \* the tuple returned, as a record of its eight fields
    \* ---- collect_remote_files (fetch/collector.rs)
    walk_pc,          \* "dirs" while the loop runs, "returned" after
    index,            \* the parsed index.json
    remote_directories, \* the requested directories
    min_last_modified,  \* the freshness threshold, epoch milliseconds
    walk_i,           \* number of requested directories walked so far
    all_files,        \* the vector collect_remote_files accumulates
    walk_ret,         \* its Result once it has returned
    \* ---- one run of main (main.rs)
    main_pc,          \* "parse" | "export" | "exporting" | "done"
    contents,         \* the files fetch_bridge_pool_files returned
    args,             \* the command line: [clear]
    parsed_data,      \* the Result of parse_bridge_pool_files
    main_ret,         \* "none" until main returns, then "ok" | "err"
    \* ---- normalize_url calls (fetch/collector.rs)
    url_pc,           \* "call" | "done"
    url,              \* the base URL given on the command line
    url_out           \* what the successive calls returned, each fed to the next

digest_vars == <<digest_pc, digest_args, digest_out>>
parse_vars  == <<parse_pc, content, parse_result>>
fetch_vars  == <<fetch_pc, remote_files, spawned, task, permits, holds,
                 results, collected, bridge_files, errors, fetch_ret>>
export_vars == <<db, tx, export_pc, export_args, export_cur, export_ret,
                 export_hist, statements>>
assign_vars == <<assign_pc, assign_arg, assign_out>>
walk_vars   == <<walk_pc, index, remote_directories, min_last_modified, walk_i,
                 all_files, walk_ret>>
main_vars   == <<main_pc, contents, args, parsed_data, main_ret>>
url_vars    == <<url_pc, url, url_out>>
vars == <<digest_vars, parse_vars, fetch_vars, export_vars, assign_vars, walk_vars,
          main_vars, url_vars>>

(***************************************************************************)
(* Results (anyhow::Result).  An error carries its context chain,          *)
(* outermost context first.                                                *)
(***************************************************************************)
Ok(v)  == [ok |-> TRUE, value |-> v]
Err(e) == [ok |-> FALSE, error |-> e]
WithContext(r, msg) == IF r.ok THEN r ELSE Err(<<msg>> \o r.error)

\* Option
None == [some |-> FALSE]
Some(v) == [some |-> TRUE, value |-> v]

Min(a, b) == IF a < b THEN a ELSE b

(***************************************************************************)
(* Strings and bytes.                                                      *)
(***************************************************************************)
\* char::is_whitespace for the atoms of the model ("\n" only separates lines)
Whitespace == {" ", "\t", "\r", "\n"}

\* str::as_bytes: the UTF-8 bytes of a text, one byte atom per text atom
Utf8(c) == <<"utf8", c>>
AsBytes(s) == [i \in 1..Len(s) |-> Utf8(s[i])]

\* str::starts_with
StartsWith(s, p) == Len(s) >= Len(p) /\ SubSeq(s, 1, Len(p)) = p

\* str::trim: strips leading and trailing whitespace
TrimStart(s) ==
    IF \A i \in 1..Len(s) : s[i] \in Whitespace THEN <<>>
    ELSE LET i == CHOOSE i \in 1..Len(s) :
                    s[i] \notin Whitespace /\ \A j \in 1..(i-1) : s[j] \in Whitespace
         IN SubSeq(s, i, Len(s))
TrimEnd(s) ==
    IF \A i \in 1..Len(s) : s[i] \in Whitespace THEN <<>>
    ELSE LET i == CHOOSE i \in 1..Len(s) :
                    s[i] \notin Whitespace /\ \A j \in (i+1)..Len(s) : s[j] \in Whitespace
         IN SubSeq(s, 1, i)
Trim(s) == TrimEnd(TrimStart(s))

\* index of the first atom of s that is in set cs, 0 when there is none
FirstIn(s, cs) ==
    IF \A i \in 1..Len(s) : s[i] \notin cs THEN 0
    ELSE CHOOSE i \in 1..Len(s) : s[i] \in cs /\ \A j \in 1..(i-1) : s[j] \notin cs

\* str::split(sep): the pieces between separators, empty pieces kept
RECURSIVE Split(_, _)
Split(s, sep) ==
    LET i == FirstIn(s, {sep})
    IN IF i = 0 THEN <<s>>
       ELSE <<SubSeq(s, 1, i-1)>> \o Split(SubSeq(s, i+1, Len(s)), sep)

\* str::splitn(2, sep): at most two pieces, cut at the first separator
SplitN2(s, sep) ==
    LET i == FirstIn(s, {sep})
    IN IF i = 0 THEN <<s>>
       ELSE <<SubSeq(s, 1, i-1), SubSeq(s, i+1, Len(s))>>

\* str::split_whitespace: the maximal runs of non-whitespace atoms
RECURSIVE SplitWhitespace(_)
SplitWhitespace(s) ==
    LET t == TrimStart(s)
        i == FirstIn(t, Whitespace)
    IN IF t = <<>> THEN <<>>
       ELSE IF i = 0 THEN <<t>>
       ELSE <<SubSeq(t, 1, i-1)>> \o SplitWhitespace(SubSeq(t, i+1, Len(t)))

\* str::lines: pieces between "\n", a trailing "\r" stripped from each piece, and
\* no final empty line after a trailing "\n"
StripCr(l) == IF Len(l) > 0 /\ l[Len(l)] = "\r" THEN SubSeq(l, 1, Len(l)-1) ELSE l
Lines(s) ==
    LET pieces == Split(s, "\n")
        kept   == IF pieces[Len(pieces)] = <<>>
                  THEN SubSeq(pieces, 1, Len(pieces)-1) ELSE pieces
    IN [i \in 1..Len(kept) |-> StripCr(kept[i])]

(***************************************************************************)
(* utils/digest.rs.  SHA-256 is modelled as an injective function from     *)
(* the hashed bytes to 32-byte strings (the hash is treated as             *)
(* collision-free): byte 1 of the output stands for the whole input,       *)
(* bytes 2..32 only fill their positions.  hex::encode writes two          *)
(* characters per byte.  Atoms of different kinds carry different tags.    *)
(***************************************************************************)
Sha256OutputBytes == 32

\* Sha256::new()
Sha256New == <<>>
\* hasher.update(data): the hasher absorbs data after what it already holds
Sha256Update(hasher, data) == hasher \o data
\* hasher.finalize()
Sha256Finalize(hasher) ==
    [i \in 1..Sha256OutputBytes |->
        IF i = 1 THEN <<"sha256", hasher>> ELSE <<"sha256-pad", i>>]

\* hex::encode
HexEncode(bytes) ==
    [k \in 1..(2 * Len(bytes)) |->
        IF k % 2 = 1 THEN <<"hex-hi", bytes[(k + 1) \div 2]>>
                     ELSE <<"hex-lo", bytes[k \div 2]>>]
IsHexChar(c) == Len(c) = 2 /\ c[1] \in {"hex-hi", "hex-lo"}
\* str::as_bytes of a hex string
HexAsBytes(d) == [i \in 1..Len(d) |-> <<"utf8-hex", d[i]>>]

\* a variant: hashes only a prefix of the content
ComputeFileDigestFirstByte(raw_content) ==
    HexEncode(Sha256Finalize(Sha256Update(Sha256New,
                  SubSeq(raw_content, 1, Min(1, Len(raw_content))))))
ComputeFileDigest(raw_content) ==
    HexEncode(Sha256Finalize(Sha256Update(Sha256New, raw_content)))

\* a variant: the raw line is not fed to the hasher
ComputeAssignmentDigestFileOnly(raw_line, file_digest) ==
    HexEncode(Sha256Finalize(Sha256Update(Sha256New, HexAsBytes(file_digest))))
\* a variant: the file digest is not fed to the hasher
ComputeAssignmentDigestLineOnly(raw_line, file_digest) ==
    HexEncode(Sha256Finalize(Sha256Update(Sha256New, raw_line)))
ComputeAssignmentDigest(raw_line, file_digest) ==
    HexEncode(Sha256Finalize(
        Sha256Update(Sha256Update(Sha256New, raw_line), HexAsBytes(file_digest))))

(***************************************************************************)
(* Digest calls: the inputs are drawn from all byte strings of at most     *)
(* MaxBytes bytes over two byte values; two files are digested and two raw  *)
(* lines are digested against each file digest, as export_to_postgres does *)
(* for two files that hold the same lines.  The second line may also be    *)
(* text that reads like the start of a file digest.                        *)
(***************************************************************************)
MaxBytes == 2
ByteValues == {Utf8("a"), Utf8("b")}
SampleBytes == UNION {[1..n -> ByteValues] : n \in 0..MaxBytes}
\* the second raw line: two lines of plain text, and the first two characters of
\* the digest of the empty file and of the file "a"
HexLines == {HexAsBytes(SubSeq(ComputeFileDigest(b), 1, 2)) : b \in {<<>>, <<Utf8("a")>>}}
SecondLines == {<<Utf8("b")>>, <<Utf8("a"), Utf8("b")>>} \cup HexLines

DigestInit ==
    /\ digest_pc = "call"
    /\ digest_args \in [b1 : SampleBytes, b2 : SampleBytes, line : SampleBytes,
                         line2 : SecondLines]
    /\ digest_out = [f1 |-> <<>>, f2 |-> <<>>, a1 |-> <<>>, a2 |-> <<>>,
                     a3 |-> <<>>, a4 |-> <<>>]
DigestIdle ==
    /\ digest_pc = "off"
    /\ digest_args = [b1 |-> <<>>, b2 |-> <<>>, line |-> <<>>, line2 |-> <<>>]
    /\ digest_out = [f1 |-> <<>>, f2 |-> <<>>, a1 |-> <<>>, a2 |-> <<>>,
                     a3 |-> <<>>, a4 |-> <<>>]

\* compute_file_digest on each of the two contents
CallComputeFileDigest ==
    /\ digest_pc = "call"
    /\ digest_pc' = "files"
    /\ digest_out' = [digest_out EXCEPT
            !.f1 = ComputeFileDigest(digest_args.b1),
            !.f2 = ComputeFileDigest(digest_args.b2)]
    /\ UNCHANGED <<digest_args, parse_vars, fetch_vars, export_vars, assign_vars, walk_vars, main_vars, url_vars>>

\* compute_assignment_digest of each line against each file digest
CallComputeAssignmentDigest ==
    /\ digest_pc = "files"
    /\ digest_pc' = "done"
    /\ digest_out' = [digest_out EXCEPT
            !.a1 = ComputeAssignmentDigest(digest_args.line, digest_out.f1),
            !.a2 = ComputeAssignmentDigest(digest_args.line, digest_out.f2),
            !.a3 = ComputeAssignmentDigest(digest_args.line2, digest_out.f1),
            !.a4 = ComputeAssignmentDigest(digest_args.line2, digest_out.f2)]
    /\ UNCHANGED <<digest_args, parse_vars, fetch_vars, export_vars, assign_vars, walk_vars, main_vars, url_vars>>

DigestNext == CallComputeFileDigest \/ CallComputeAssignmentDigest

(***************************************************************************)
(* parse/bridge_pool.rs                                                    *)
(***************************************************************************)
HeaderToken == <<"bridge-pool-assignment">>

\* The dates and times of day the model's texts use, as the numbers "%Y-%m-%d"
\* and "%H:%M:%S" read from their digits.  Every other atom is not a date ("%d"
\* beyond the month's length included), or not a time with seconds.
YmdOf == [d \in {"1970-01-01", "2022-04-09", "2022-04-10", "2022-04-30", "2022-05-01",
                 "2022-12-31", "2023-01-01", "2024-02-28", "2024-02-29", "2024-03-01",
                 "2037-12-31"} |->
    CASE d = "1970-01-01" -> <<1970, 1, 1>>
      [] d = "2022-04-09" -> <<2022, 4, 9>>
      [] d = "2022-04-10" -> <<2022, 4, 10>>
      [] d = "2022-04-30" -> <<2022, 4, 30>>
      [] d = "2022-05-01" -> <<2022, 5, 1>>
      [] d = "2022-12-31" -> <<2022, 12, 31>>
      [] d = "2023-01-01" -> <<2023, 1, 1>>
      [] d = "2024-02-28" -> <<2024, 2, 28>>
      [] d = "2024-02-29" -> <<2024, 2, 29>>
      [] d = "2024-03-01" -> <<2024, 3, 1>>
      [] d = "2037-12-31" -> <<2037, 12, 31>>]
HmsOf == [t \in {"00:00:00", "00:29:37", "12:00:00", "23:59:59", "23:59:60"} |->
    CASE t = "00:00:00" -> <<0, 0, 0>>
      [] t = "00:29:37" -> <<0, 29, 37>>
      [] t = "12:00:00" -> <<12, 0, 0>>
      [] t = "23:59:59" -> <<23, 59, 59>>
      [] t = "23:59:60" -> <<23, 59, 60>>]

\* NaiveDate: the days from 1970-01-01 to a date of the proleptic Gregorian
\* calendar, by its 400-year cycles of 146097 days
DaysFromCivil(ymd) ==
    LET y   == IF ymd[2] <= 2 THEN ymd[1] - 1 ELSE ymd[1]
        mp  == IF ymd[2] > 2 THEN ymd[2] - 3 ELSE ymd[2] + 9
        era == y \div 400
        yoe == y - era * 400
        doy == (153 * mp + 2) \div 5 + ymd[3] - 1
        doe == yoe * 365 + yoe \div 4 - yoe \div 100 + doy
    IN era * 146097 + doe - 719468
DateDays == [d \in DOMAIN YmdOf |-> DaysFromCivil(YmdOf[d])]
\* NaiveTime: seconds since midnight; "%S" = 60 is read as the leap second, second
\* 59 with 1000 more milliseconds
TimeSecs == [t \in DOMAIN HmsOf |->
                HmsOf[t][1] * 3600 + HmsOf[t][2] * 60 + Min(HmsOf[t][3], 59)]
TimeMillis == [t \in DOMAIN HmsOf |-> IF HmsOf[t][3] = 60 THEN 1000 ELSE 0]

\* NaiveDateTime::parse_from_str(s, "%Y-%m-%d %H:%M:%S")
ParseFromStrYmdHms(s) ==
    IF Len(s) = 3 /\ s[1] \in DOMAIN DateDays /\ s[2] = " " /\ s[3] \in DOMAIN TimeSecs
    THEN Ok([days |-> DateDays[s[1]], secs |-> TimeSecs[s[3]], millis |-> TimeMillis[s[3]]])
    ELSE Err(<<"chrono::ParseError">>)

\* a variant: timestamp() in place of timestamp_millis(): the value in seconds
TimestampSeconds(dt) ==
    [q |-> (dt.days * 86400 + dt.secs) \div 1000, r |-> (dt.days * 86400 + dt.secs) % 1000]
\* naive_dt.and_utc().timestamp_millis() = timestamp() * 1000 +
\* timestamp_subsec_millis(): the i64 value 1000 * q + r, kept as quotient and
\* remainder because it does not fit a 32-bit integer
TimestampMillis(dt) ==
    [q |-> dt.days * 86400 + dt.secs + dt.millis \div 1000, r |-> dt.millis % 1000]

\* a variant: accepts a header line with more than three fields
ParseBridgePoolAssignmentLineAtLeast3(line) ==
    LET parts == SplitWhitespace(line)
    IN IF Len(parts) < 3 \/ parts[1] # HeaderToken
       THEN Err(<<"Invalid bridge-pool-assignment line">>)
       ELSE LET dt == ParseFromStrYmdHms(parts[2] \o <<" ">> \o parts[3])
            IN IF dt.ok THEN Ok(TimestampMillis(dt.value))
               ELSE WithContext(dt, "Failed to parse timestamp")
ParseBridgePoolAssignmentLine(line) ==
    LET parts == SplitWhitespace(line)
    IN IF Len(parts) # 3 \/ parts[1] # HeaderToken
       THEN Err(<<"Invalid bridge-pool-assignment line">>)
       ELSE LET dt == ParseFromStrYmdHms(parts[2] \o <<" ">> \o parts[3])
            IN IF dt.ok THEN Ok(TimestampMillis(dt.value))
               ELSE WithContext(dt, "Failed to parse timestamp")

\* parse_bridge_line returns Ok(None) or Ok(Some((fingerprint, assignment))) and
\* never Err: the model keeps the Option.
\* a variant: a line without a separator is kept, with an empty assignment
ParseBridgeLineNoSkip(line) ==
    LET parts == SplitN2(line, " ")
    IN IF Len(parts) < 2
       THEN Some([fingerprint |-> parts[1], assignment |-> <<>>])
       ELSE Some([fingerprint |-> parts[1], assignment |-> parts[2]])
ParseBridgeLine(line) ==
    LET parts == SplitN2(line, " ")
    IN IF Len(parts) < 2 THEN None
       ELSE Some([fingerprint |-> parts[1], assignment |-> parts[2]])

\* BTreeMap::insert: the new value replaces an earlier one under the same key
MapInsert(m, k, v) == (k :> v) @@ m
EmptyMap == <<>>

\* a variant: the raw line is stored under the whole line instead of the fingerprint
RecordLineRawKeyedByLine(acc, parsed, trimmed) ==
    [entries   |-> MapInsert(acc.entries, parsed.value.fingerprint, parsed.value.assignment),
     raw_lines |-> MapInsert(acc.raw_lines, trimmed, AsBytes(trimmed))]
\* a variant: entry(fingerprint).or_insert keeps the first line of an id
RecordLineFirstWins(acc, parsed, trimmed) ==
    IF parsed.value.fingerprint \in DOMAIN acc.entries THEN acc
    ELSE [entries   |-> MapInsert(acc.entries, parsed.value.fingerprint,
                                  parsed.value.assignment),
          raw_lines |-> MapInsert(acc.raw_lines, parsed.value.fingerprint,
                                  AsBytes(trimmed))]
\* the body of `if let Some((fingerprint, assignment))`: lines 100 and 102
RecordLine(acc, parsed, trimmed) ==
    [entries   |-> MapInsert(acc.entries, parsed.value.fingerprint, parsed.value.assignment),
     raw_lines |-> MapInsert(acc.raw_lines, parsed.value.fingerprint, AsBytes(trimmed))]

\* the second loop, over every line of the content from its first line
RECURSIVE BodyLoop(_, _, _, _)
BodyLoop(lines, i, header_line, acc) ==
    IF i > Len(lines) THEN acc
    ELSE LET trimmed == Trim(lines[i])
             parsed  == ParseBridgeLine(trimmed)
         IN IF trimmed = header_line THEN BodyLoop(lines, i + 1, header_line, acc)
            ELSE IF parsed.some
                 THEN BodyLoop(lines, i + 1, header_line, RecordLine(acc, parsed, trimmed))
                 ELSE BodyLoop(lines, i + 1, header_line, acc)

\* the first loop: the index of the first line whose trimmed text starts with the
\* header token, 0 when the iterator runs out
FindHeader(lines) ==
    IF \A i \in 1..Len(lines) : ~StartsWith(Trim(lines[i]), HeaderToken) THEN 0
    ELSE CHOOSE i \in 1..Len(lines) :
            /\ StartsWith(Trim(lines[i]), HeaderToken)
            /\ \A j \in 1..(i-1) : ~StartsWith(Trim(lines[j]), HeaderToken)

ParseSingleBridgePoolFile(text, raw_content) ==
    LET lines == Lines(text)
        h     == FindHeader(lines)
    IN IF h = 0 THEN Err(<<"No bridge-pool-assignment line found">>)
       ELSE LET header_line == Trim(lines[h])
                published   == ParseBridgePoolAssignmentLine(header_line)
            IN IF ~published.ok
               THEN WithContext(published, "Failed to parse bridge-pool-assignment line")
               ELSE LET acc == BodyLoop(lines, 1, header_line,
                                        [entries |-> EmptyMap, raw_lines |-> EmptyMap])
                    IN Ok([published_millis |-> published.value,
                           entries          |-> acc.entries,
                           raw_content      |-> raw_content,
                           raw_lines        |-> acc.raw_lines])

(***************************************************************************)
(* Parse calls: the content is any text of at most MaxLines lines, each    *)
(* one of SampleLines and each ended by "\n".                              *)
(***************************************************************************)
MaxLines == 3
SampleLines == {
    <<"bridge-pool-assignment", " ", "2022-04-09", " ", "00:29:37">>,
    <<"bridge-pool-assignment", " ", "2022-04-09", " ", "00:29">>,
    <<"bridge-pool-assignment", "s", " ", "2022-04-09", " ", "00:29:37">>,
    <<" ", "bridge-pool-assignment", " ", "2022-04-10", " ", "00:29:37">>,
    <<"bridge-pool-assignment", " ", "2022-04-09", " ", "00:29:37", " ", "x">>,
    <<"bridge-pool-assignment">>,
    <<"005f", " ", "email">>,
    <<"\t", "005f", " ", "https", " ">>,
    <<"01ea", " ", "email", " ", "transport", "=", "obfs4">>,
    <<"01ea", "\t", "email">>,
    <<"02bc">>,
    <<>> }

RECURSIVE JoinLines(_)
JoinLines(ls) ==
    IF ls = <<>> THEN <<>> ELSE ls[1] \o <<"\n">> \o JoinLines(Tail(ls))
SampleTexts == {JoinLines(ls) : ls \in UNION {[1..n -> SampleLines] : n \in 0..MaxLines}}

ParseInit ==
    /\ parse_pc = "call"
    /\ content \in SampleTexts
    /\ parse_result = Err(<<>>)
ParseIdle ==
    /\ parse_pc = "off"
    /\ content = <<>>
    /\ parse_result = Err(<<>>)

\* parse_single_bridge_pool_file(&file.content, file.raw_content), the raw content
\* being the bytes of the same text
CallParseSingleBridgePoolFile ==
    /\ parse_pc = "call"
    /\ parse_pc' = "done"
    /\ parse_result' = ParseSingleBridgePoolFile(content, AsBytes(content))
    /\ UNCHANGED <<content, digest_vars, fetch_vars, export_vars, assign_vars, walk_vars, main_vars, url_vars>>

ParseNext == CallParseSingleBridgePoolFile

\* parse_bridge_pool_assignment_line calls: the line is the header token, a date of
\* YmdOf or one that is none, and a time of HmsOf
HeaderDates == DOMAIN YmdOf \cup {"2022-02-30"}
HeaderInit ==
    /\ parse_pc = "line"
    /\ \E d \in HeaderDates, t \in DOMAIN HmsOf : content = HeaderToken \o <<" ", d, " ", t>>
    /\ parse_result = Err(<<>>)
CallParseBridgePoolAssignmentLine ==
    /\ parse_pc = "line"
    /\ parse_pc' = "line_done"
    /\ parse_result' = ParseBridgePoolAssignmentLine(content)
    /\ UNCHANGED <<content, digest_vars, fetch_vars, export_vars, assign_vars, walk_vars, main_vars, url_vars>>
HeaderNext == CallParseBridgePoolAssignmentLine

(***************************************************************************)
(* fetch/collector.rs: fetch_file_contents and fetch_file_content.         *)
(*                                                                         *)
(* The remote server is the environment: a request fails or is answered    *)
(* with a status and the body the server holds for that path and status;   *)
(* reading the body fails or yields it.  A task may panic while its fetch  *)
(* is in flight.  The semaphore hands a free permit to any task waiting    *)
(* for one.  The model leaves out BridgePoolFile.last_modified, which no   *)
(* later stage reads.                                                      *)
(***************************************************************************)
\* Semaphore::new(50), scaled so that more entries than permits are reachable
SemaphorePermits == 2
MaxFiles == 3
Paths == {<<"a">>, <<"b">>}
Statuses == {200, 404}

\* the snapshots the server holds: two files that share one line
TextA == JoinLines(<<
    <<"bridge-pool-assignment", " ", "2022-04-09", " ", "00:29:37">>,
    <<"005f", " ", "email">>,
    <<"01ea", " ", "email", " ", "transport", "=", "obfs4">>,
    <<"02bc", " ", "https", " ", "distributed", "=", "true", " ", "ratio", "=", "0.5">> >>)
TextB == JoinLines(<<
    <<"bridge-pool-assignment", " ", "2022-04-10", " ", "00:29:37">>,
    <<"005f", " ", "email">>,
    <<"01ea", " ", "moat">> >>)
\* a snapshot without entries
TextC == JoinLines(<< <<"bridge-pool-assignment", " ", "2022-04-10", " ", "00:29:37">> >>)
\* a snapshot whose body lines separate the id from the payload by two spaces
\* and by a tab
TextD == JoinLines(<<
    <<"bridge-pool-assignment", " ", "2022-04-09", " ", "00:29:37">>,
    <<"02bc", " ", " ", "moat">>,
    <<"03cd", "\t", "moat">> >>)
\* the path of each file the index of a run lists, and the snapshot it holds
ServedText ==
    [path \in {<<"a", "/", "b", "/", "f1">>, <<"a", "/", "b", "/", "f2">>,
               <<"a", "/", "b", "/", "f3">>, <<"c", "/", "g">>} |->
        CASE path[Len(path)] = "f1" -> TextD
          [] path[Len(path)] = "f2" -> TextB
          [] path[Len(path)] = "f3" -> TextC
          [] OTHER                  -> TextA]

\* what the server sends for a path: "b" holds a byte that is not valid UTF-8
ServedBody(path, status) ==
    IF status # 200 THEN AsBytes(<<"not-found">>)
    ELSE IF path \in DOMAIN ServedText THEN AsBytes(ServedText[path])
    ELSE IF path = <<"a">> THEN AsBytes(<<"A">>)
    ELSE <<Utf8("B"), <<"raw", 255>>>>

\* Response::text(): the body decoded as UTF-8, invalid bytes replaced by U+FFFD
DecodeLossy(bytes) ==
    [i \in 1..Len(bytes) |-> IF bytes[i][1] = "utf8" THEN bytes[i][2] ELSE "U+FFFD"]

\* lines 325-335: the BridgePoolFile built from one response body
BridgePoolFile(path, body) ==
    LET text == DecodeLossy(body)
    IN [path |-> path, content |-> text, raw_content |-> AsBytes(text)]

FetchFrame == UNCHANGED <<digest_vars, parse_vars, export_vars, assign_vars, walk_vars, main_vars, url_vars>>
\* what a step of one task leaves alone
TaskFrame ==
    /\ UNCHANGED <<fetch_pc, remote_files, spawned, results, collected,
                   bridge_files, errors, fetch_ret>>
    /\ FetchFrame

Entries == 1..Len(remote_files)
InFlight(i) == task[i].pc \in {"request", "body"}
Finished(i) == task[i].pc \in {"ok", "err", "panicked"}

FetchInit ==
    /\ fetch_pc = "spawning"
    /\ remote_files \in UNION {[1..n -> Paths] : n \in 1..MaxFiles}
    /\ spawned = 0
    /\ task = [i \in 1..Len(remote_files) |-> [pc |-> "unspawned", status |-> 0]]
    /\ permits = SemaphorePermits
    /\ holds = [i \in 1..Len(remote_files) |-> FALSE]
    /\ results = <<>>
    /\ collected = 0
    /\ bridge_files = <<>>
    /\ errors = 0
    /\ fetch_ret = "none"
FetchIdle ==
    /\ fetch_pc = "off"
    /\ remote_files = <<>>
    /\ spawned = 0
    /\ task = <<>>
    /\ permits = SemaphorePermits
    /\ holds = <<>>
    /\ results = <<>>
    /\ collected = 0
    /\ bridge_files = <<>>
    /\ errors = 0
    /\ fetch_ret = "none"

\* lines 244-262: the next entry's task is spawned; it starts by awaiting a permit
SpawnTask ==
    /\ fetch_pc = "spawning"
    /\ spawned < Len(remote_files)
    /\ spawned' = spawned + 1
    /\ task' = [task EXCEPT ![spawned + 1].pc = "acquire"]
    /\ UNCHANGED <<fetch_pc, remote_files, permits, holds, results, collected,
                   bridge_files, errors, fetch_ret>>
    /\ FetchFrame

\* line 264: every task is spawned, the caller awaits join_all
AwaitJoinAll ==
    /\ fetch_pc = "spawning"
    /\ spawned = Len(remote_files)
    /\ fetch_pc' = "joining"
    /\ UNCHANGED <<remote_files, spawned, task, permits, holds, results, collected,
                   bridge_files, errors, fetch_ret>>
    /\ FetchFrame

\* a variant: `let _ = permit.await` drops the permit as soon as it is acquired
AcquirePermitDropped(i) ==
    /\ task[i].pc = "acquire"
    /\ permits > 0
    /\ task' = [task EXCEPT ![i].pc = "request"]
    /\ UNCHANGED <<permits, holds>>
    /\ TaskFrame
\* line 253: `let _permit = permit.await`: the task owns a permit until it ends
AcquirePermit(i) ==
    /\ task[i].pc = "acquire"
    /\ permits > 0
    /\ permits' = permits - 1
    /\ holds' = [holds EXCEPT ![i] = TRUE]
    /\ task' = [task EXCEPT ![i].pc = "request"]
    /\ TaskFrame

\* a variant: the permit is given back by hand after a successful fetch only
DropPermitOnSuccessOnly(i) ==
    IF task'[i].pc = "ok"
    THEN /\ permits' = IF holds[i] THEN permits + 1 ELSE permits
         /\ holds' = [holds EXCEPT ![i] = FALSE]
    ELSE UNCHANGED <<permits, holds>>
\* _permit goes out of scope when the task's future ends (return or unwinding)
DropPermit(i) ==
    /\ permits' = IF holds[i] THEN permits + 1 ELSE permits
    /\ holds' = [holds EXCEPT ![i] = FALSE]

\* line 306: reqwest::get answers with a response of some status
RequestAnswered(i) ==
    /\ task[i].pc = "request"
    /\ \E st \in Statuses : task' = [task EXCEPT ![i] = [pc |-> "body", status |-> st]]
    /\ UNCHANGED <<permits, holds>>
    /\ TaskFrame

\* a variant: the task that fails keeps its permit
RequestFailedKeepsPermit(i) ==
    /\ task[i].pc = "request"
    /\ task' = [task EXCEPT ![i].pc = "err"]
    /\ UNCHANGED <<permits, holds>>
    /\ TaskFrame
\* line 308: reqwest::get fails, the task returns Err
RequestFailed(i) ==
    /\ task[i].pc = "request"
    /\ task' = [task EXCEPT ![i].pc = "err"]
    /\ DropPermit(i)
    /\ TaskFrame

\* lines 325-335: the body is read, the task returns Ok(file)
BodyRead(i) ==
    /\ task[i].pc = "body"
    /\ task' = [task EXCEPT ![i].pc = "ok"]
    /\ DropPermit(i)
    /\ TaskFrame

\* line 325: reading the body fails, the task returns Err
BodyFailed(i) ==
    /\ task[i].pc = "body"
    /\ task' = [task EXCEPT ![i].pc = "err"]
    /\ DropPermit(i)
    /\ TaskFrame

\* the task panics while its fetch is in flight; unwinding drops the permit
TaskPanics(i) ==
    /\ InFlight(i)
    /\ task' = [task EXCEPT ![i].pc = "panicked"]
    /\ DropPermit(i)
    /\ TaskFrame

\* a variant: the tasks read one shared path, left at the last entry
TaskPathOfLastEntry(i) == remote_files[Len(remote_files)]
\* lines 245-247: the path of entry i, moved into the closure of its task
TaskPath(i) == remote_files[i]

\* what joining task i yields: Ok(Ok(file)), Ok(Err(e)) or Err(JoinError); the
\* file is the one fetch_file_content built from its file_path and the body of
\* the response to base_url + file_path
JoinResult(i) ==
    CASE task[i].pc = "ok"  ->
            [kind |-> "ok", entry |-> i,
             file |-> BridgePoolFile(TaskPath(i), ServedBody(TaskPath(i), task[i].status))]
      [] task[i].pc = "err" -> [kind |-> "err", entry |-> i]
      [] OTHER              -> [kind |-> "panicked", entry |-> i]

\* a variant: the caller goes on as soon as one task has finished
JoinFirstCompletes ==
    /\ fetch_pc = "joining"
    /\ \E i \in Entries : Finished(i)
    /\ results' = [i \in Entries |-> JoinResult(i)]
    /\ fetch_pc' = "collecting"
    /\ UNCHANGED <<remote_files, spawned, task, permits, holds, collected,
                   bridge_files, errors, fetch_ret>>
    /\ FetchFrame
\* a variant: the results are taken in the order in which the tasks finished,
\* which may be any order
JoinAllCompletesUnordered ==
    /\ fetch_pc = "joining"
    /\ \A i \in Entries : Finished(i)
    /\ \E order \in {f \in [Entries -> Entries] : \A i, j \in Entries : f[i] = f[j] => i = j} :
          results' = [k \in Entries |-> JoinResult(order[k])]
    /\ fetch_pc' = "collecting"
    /\ UNCHANGED <<remote_files, spawned, task, permits, holds, collected,
                   bridge_files, errors, fetch_ret>>
    /\ FetchFrame
\* line 264: join_all completes when every task has finished; results are in
\* spawn order
JoinAllCompletes ==
    /\ fetch_pc = "joining"
    /\ \A i \in Entries : Finished(i)
    /\ results' = [i \in Entries |-> JoinResult(i)]
    /\ fetch_pc' = "collecting"
    /\ UNCHANGED <<remote_files, spawned, task, permits, holds, collected,
                   bridge_files, errors, fetch_ret>>
    /\ FetchFrame

\* a variant: a failed or panicked task makes the whole call return the error
CollectResultPropagates ==
    /\ fetch_pc = "collecting"
    /\ collected < Len(results)
    /\ LET r == results[collected + 1]
       IN IF r.kind = "ok"
          THEN /\ bridge_files' = Append(bridge_files, r.file)
               /\ collected' = collected + 1
               /\ UNCHANGED <<errors, fetch_pc, fetch_ret>>
          ELSE /\ fetch_pc' = "returned"
               /\ fetch_ret' = "err"
               /\ UNCHANGED <<bridge_files, errors, collected>>
    /\ UNCHANGED <<remote_files, spawned, task, permits, holds, results>>
    /\ FetchFrame
\* lines 268-280: one iteration of the loop over the results
CollectResult ==
    /\ fetch_pc = "collecting"
    /\ collected < Len(results)
    /\ LET r == results[collected + 1]
       IN IF r.kind = "ok"
          THEN bridge_files' = Append(bridge_files, r.file) /\ UNCHANGED errors
          ELSE errors' = errors + 1 /\ UNCHANGED bridge_files
    /\ collected' = collected + 1
    /\ UNCHANGED <<fetch_pc, fetch_ret>>
    /\ UNCHANGED <<remote_files, spawned, task, permits, holds, results>>
    /\ FetchFrame

\* line 287: Ok(bridge_files)
ReturnBridgeFiles ==
    /\ fetch_pc = "collecting"
    /\ collected = Len(results)
    /\ fetch_pc' = "returned"
    /\ fetch_ret' = "ok"
    /\ UNCHANGED <<remote_files, spawned, task, permits, holds, results, collected,
                   bridge_files, errors>>
    /\ FetchFrame

FetchNext ==
    \/ SpawnTask
    \/ AwaitJoinAll
    \/ \E i \in Entries : AcquirePermit(i)
    \/ \E i \in Entries : RequestAnswered(i)
    \/ \E i \in Entries : RequestFailed(i)
    \/ \E i \in Entries : BodyRead(i)
    \/ \E i \in Entries : BodyFailed(i)
    \/ \E i \in Entries : TaskPanics(i)
    \/ JoinAllCompletes
    \/ CollectResult
    \/ ReturnBridgeFiles

\* The caller of fetch_file_contents is cancelled: its future is dropped at the
\* one point where it is suspended, the await of join_all (line 264).  Dropping
\* the JoinHandles detaches the tasks tokio::spawn started (line 252): nothing
\* aborts them, and the runtime goes on running them.
CancelCaller ==
    /\ fetch_pc = "joining"
    /\ fetch_pc' = "cancelled"
    /\ UNCHANGED <<remote_files, spawned, task, permits, holds, results, collected,
                   bridge_files, errors, fetch_ret>>
    /\ FetchFrame
FetchCancelNext == FetchNext \/ CancelCaller

(***************************************************************************)
(* export/postgres.rs                                                      *)
(*                                                                         *)
(* The store holds the two relations and whether the schema exists.  One   *)
(* client writes to it; a transaction works on its own view of the store,  *)
(* which replaces the store at commit and is discarded when the            *)
(* Transaction value is dropped without commit.  Every statement sent to   *)
(* the server may fail (a PersistenceError): the function then returns     *)
(* through `?`, dropping the transaction.                                  *)
(***************************************************************************)
\* MAX_FILES_TO_EXPORT = 100 and batch_size = 1000 in the source, scaled so
\* that inputs beyond them are reachable
MaxFilesToExport == 2
BatchSize == 2
MaxSets == 3
MaxExportCalls == 2

\* str::to_lowercase on the atoms the model uses
ToLowercase(s) == [i \in 1..Len(s) |-> IF s[i] \in {"TRUE", "True"} THEN "true" ELSE s[i]]
\* str::parse::<f32>: the atoms that are floats, as numerator and denominator
F32Of == [a \in {"0.5", "1"} |-> IF a = "0.5" THEN <<1, 2>> ELSE <<1, 1>>]
ParseF32(s) ==
    IF Len(s) = 1 /\ s[1] \in DOMAIN F32Of THEN Ok(F32Of[s[1]]) ELSE Err(<<"ParseFloatError">>)
\* Result::ok
ResultOk(r) == IF r.ok THEN Some(r.value) ELSE None

\* a variant: the blocklist arm assigns to ip
ApplyPairBlocklistAsIp(f, pair) ==
    LET kv == SplitN2(pair, "=")
    IN IF Len(kv) # 2 THEN f
       ELSE CASE kv[1] = <<"transport">>   -> [f EXCEPT !.transport = Some(kv[2])]
              [] kv[1] = <<"ip">>          -> [f EXCEPT !.ip = Some(kv[2])]
              [] kv[1] = <<"blocklist">>   -> [f EXCEPT !.ip = Some(kv[2])]
              [] kv[1] = <<"distributed">> ->
                    [f EXCEPT !.distributed = Some(ToLowercase(kv[2]) = <<"true">>)]
              [] kv[1] = <<"state">>       -> [f EXCEPT !.state = Some(kv[2])]
              [] kv[1] = <<"bandwidth">>   -> [f EXCEPT !.bandwidth = Some(kv[2])]
              [] kv[1] = <<"ratio">>       -> [f EXCEPT !.ratio = ResultOk(ParseF32(kv[2]))]
              [] OTHER                     -> f
\* lines 404-417: one key=value token
ApplyPair(f, pair) ==
    LET kv == SplitN2(pair, "=")
    IN IF Len(kv) # 2 THEN f
       ELSE CASE kv[1] = <<"transport">>   -> [f EXCEPT !.transport = Some(kv[2])]
              [] kv[1] = <<"ip">>          -> [f EXCEPT !.ip = Some(kv[2])]
              [] kv[1] = <<"blocklist">>   -> [f EXCEPT !.blocklist = Some(kv[2])]
              [] kv[1] = <<"distributed">> ->
                    [f EXCEPT !.distributed = Some(ToLowercase(kv[2]) = <<"true">>)]
              [] kv[1] = <<"state">>       -> [f EXCEPT !.state = Some(kv[2])]
              [] kv[1] = <<"bandwidth">>   -> [f EXCEPT !.bandwidth = Some(kv[2])]
              [] kv[1] = <<"ratio">>       -> [f EXCEPT !.ratio = ResultOk(ParseF32(kv[2]))]
              [] OTHER                     -> f

RECURSIVE ApplyPairs(_, _)
ApplyPairs(f, pairs) ==
    IF pairs = <<>> THEN f ELSE ApplyPairs(ApplyPair(f, pairs[1]), Tail(pairs))

ParseAssignmentString(assignment_str) ==
    LET parts == SplitN2(assignment_str, " ")
        f0    == [distribution_method |-> parts[1],
                  transport |-> None, ip |-> None, blocklist |-> None,
                  distributed |-> None, state |-> None, bandwidth |-> None,
                  ratio |-> None]
    IN IF Len(parts) > 1 THEN ApplyPairs(f0, SplitWhitespace(parts[2])) ELSE f0

\* i64::MAX milliseconds, a value the model's 32-bit quotient cannot hold: it
\* lies beyond the last DateTime chrono has (year 262142)
I64Max == [i64 |-> "MAX"]
\* a variant: a value outside chrono's range is replaced by the epoch
FromTimestampMillisOrEpoch(ms) ==
    IF ms = I64Max THEN Some([secs |-> 0, millis |-> 0])
    ELSE Some([secs |-> ms.q, millis |-> ms.r])
\* DateTime::<Utc>::from_timestamp_millis(ms).map(naive_utc): None outside
\* chrono's range; every value the model's 32-bit quotient can hold is inside it
FromTimestampMillis(ms) ==
    IF ms = I64Max THEN None ELSE Some([secs |-> ms.q, millis |-> ms.r])

\* Option::unwrap_or
UnwrapOr(o, d) == IF o.some THEN o.value ELSE d

\* lines 228-233: the row of the file relation
FileRow(published_naive, digest) ==
    [published |-> published_naive, header |-> "bridge-pool-assignment", digest |-> digest]

\* lines 267-291: the row staged for one entry
EntryRow(assignment, published_naive, file_digest, fingerprint) ==
    LET f == ParseAssignmentString(assignment.entries[fingerprint])
    IN [published               |-> published_naive,
        digest                  |-> ComputeAssignmentDigest(
                                        assignment.raw_lines[fingerprint], file_digest),
        fingerprint             |-> fingerprint,
        distribution_method     |-> f.distribution_method,
        transport               |-> f.transport,
        ip                      |-> f.ip,
        blocklist               |-> f.blocklist,
        bridge_pool_assignments |-> file_digest,
        distributed             |-> UnwrapOr(f.distributed, FALSE),
        state                   |-> f.state,
        bandwidth               |-> f.bandwidth,
        ratio                   |-> f.ratio]

EmptyStore == [schema |-> FALSE, file |-> {}, entry |-> {}]
NoTransaction == [open |-> FALSE, store |-> EmptyStore]
FileKeys(store) == {r.digest : r \in store.file}
EntryKeys(store) == {r.digest : r \in store.entry}

\* a variant: INSERT without ON CONFLICT: a second row under a key is an error
ExecInsertFileNoConflictClause(store, row) ==
    IF row.digest \in FileKeys(store) THEN Err(<<"unique_violation">>)
    ELSE Ok([store EXCEPT !.file = @ \cup {row}])
\* a variant: the file relation keyed by its header label, with ON CONFLICT
\* (header) DO UPDATE: the row replaces the row of every earlier file
ExecInsertFileKeyedByHeader(store, row) ==
    Ok([store EXCEPT !.file = {r \in @ : r.header # row.header} \cup {row}])
\* lines 231-232: INSERT INTO bridge_pool_assignments_file ... ON CONFLICT (digest)
\* DO NOTHING
ExecInsertFile(store, row) ==
    IF row.digest \in FileKeys(store) THEN Ok(store)
    ELSE Ok([store EXCEPT !.file = @ \cup {row}])

\* lines 349-352: INSERT INTO bridge_pool_assignment ... VALUES rows ON CONFLICT
\* (digest) DO NOTHING.  A row whose key exists is skipped; a row that is inserted
\* must reference a row of the file relation (REFERENCES, line 163).
RECURSIVE ExecInsertBatch(_, _)
ExecInsertBatch(store, rows) ==
    IF rows = <<>> THEN Ok(store)
    ELSE LET row == rows[1]
         IN IF row.digest \in EntryKeys(store)
            THEN ExecInsertBatch(store, Tail(rows))
            ELSE IF row.bridge_pool_assignments \notin FileKeys(store)
            THEN Err(<<"foreign_key_violation">>)
            ELSE ExecInsertBatch([store EXCEPT !.entry = @ \cup {row}], Tail(rows))

\* TRUNCATE TABLE bridge_pool_assignment CASCADE
ExecTruncateAssignment(store) == [store EXCEPT !.entry = {}]
\* TRUNCATE TABLE bridge_pool_assignments_file CASCADE: also empties the relation
\* that references it
ExecTruncateFile(store) == [store EXCEPT !.file = {}, !.entry = {}]

\* BTreeMap iteration: the keys in their order, which the key set determines
RECURSIVE KeysInOrder(_)
KeysInOrder(S) ==
    IF S = {} THEN <<>>
    ELSE LET k == CHOOSE k \in S : TRUE IN <<k>> \o KeysInOrder(S \ {k})

\* the assignment sets the model exports: what the parser returns for two files
\* that share one line (TextA and TextB)
SetA == ParseSingleBridgePoolFile(TextA, AsBytes(TextA)).value
SetB == ParseSingleBridgePoolFile(TextB, AsBytes(TextB)).value
SetC == ParseSingleBridgePoolFile(TextC, AsBytes(TextC)).value
SampleSets == {SetA, SetB}

\* a variant: the vector is exported whole, without take
AssignmentsToExportAll == export_args.sets
\* lines 86-89: parsed_assignments.into_iter().take(MAX_FILES_TO_EXPORT)
AssignmentsToExport == SubSeq(export_args.sets, 1, Min(Len(export_args.sets), MaxFilesToExport))
CurrentAssignment == AssignmentsToExport[export_cur.i]

NoReturn == [status |-> "none", cause |-> "none"]
ExportInit ==
    /\ db = EmptyStore
    /\ tx = NoTransaction
    /\ export_pc = "idle"
    /\ export_args = [sets |-> <<>>, clear |-> FALSE]
    /\ export_cur = [i |-> 0, todo |-> <<>>]
    /\ export_ret = NoReturn
    /\ export_hist = [before |-> EmptyStore, calls |-> 0]
    /\ statements = <<>>
ExportIdle == ExportInit

ExportFrame == UNCHANGED <<digest_vars, parse_vars, fetch_vars, assign_vars, walk_vars, main_vars, url_vars>>

\* the caller calls export_to_postgres
CallExportToPostgres ==
    /\ export_pc = "idle"
    /\ export_hist.calls < MaxExportCalls
    /\ \E sets \in UNION {[1..n -> SampleSets] : n \in 0..MaxSets}, clear \in BOOLEAN :
          export_args' = [sets |-> sets, clear |-> clear]
    /\ export_pc' = "connect"
    /\ export_ret' = NoReturn
    /\ export_hist' = [before |-> db, calls |-> export_hist.calls + 1]
    /\ statements' = <<>>
    /\ export_cur' = [i |-> 0, todo |-> <<>>]
    /\ UNCHANGED <<db, tx>>
    /\ ExportFrame

\* a statement the store has executed inside the call's transaction: its kind and
\* what it carries (the digest of a file row, the rows of a batch)
Statement(op, arg) == [op |-> op, arg |-> arg]
Executed(s) == statements' = Append(statements, s)

\* a variant whose statements are not undone when the function returns the error
ReturnErrKeepsWrites(cause) ==
    /\ ExportFrame
    /\ export_pc' = "idle"
    /\ export_ret' = [status |-> "err", cause |-> cause]
    /\ tx' = NoTransaction
    /\ db' = IF tx.open THEN tx.store ELSE db
    /\ UNCHANGED <<export_args, export_cur, export_hist, statements>>

\* `?` on an error: the function returns it; a transaction that is open is dropped
\* without commit
ReturnErr(cause) ==
    /\ ExportFrame
    /\ export_pc' = "idle"
    /\ export_ret' = [status |-> "err", cause |-> cause]
    /\ tx' = NoTransaction
    /\ UNCHANGED <<db, export_args, export_cur, export_hist, statements>>

\* after the last statement of a file, or when there is no file: the next file or
\* the commit
AfterFile(i) == IF i < Len(AssignmentsToExport) THEN "insert_file" ELSE "commit"

\* lines 57-59
Connect ==
    /\ ExportFrame
    /\ export_pc = "connect"
    /\ \/ /\ export_pc' = "begin"
          /\ UNCHANGED <<db, tx, export_args, export_cur, export_ret, export_hist, statements>>
       \/ ReturnErr("io")

\* lines 66-69
BeginTransaction ==
    /\ ExportFrame
    /\ export_pc = "begin"
    /\ \/ /\ tx' = [open |-> TRUE, store |-> db]
          /\ export_pc' = "create_tables"
          /\ UNCHANGED <<db, export_args, export_cur, export_ret, export_hist, statements>>
       \/ ReturnErr("io")

\* lines 71-73 and 130-203: CREATE TABLE / INDEX IF NOT EXISTS
CreateTables ==
    /\ ExportFrame
    /\ export_pc = "create_tables"
    /\ \/ /\ tx' = [tx EXCEPT !.store.schema = TRUE]
          /\ export_pc' = IF export_args.clear THEN "truncate_assignment"
                          ELSE AfterFile(0)
          /\ export_cur' = [i |-> 1, todo |-> <<>>]
          /\ UNCHANGED <<db, export_args, export_ret, export_hist>>
          /\ Executed(Statement("create_tables", <<>>))
       \/ ReturnErr("io")

\* a variant that runs the TRUNCATE on the client, outside the transaction
TruncateAssignmentOnClient ==
    /\ ExportFrame
    /\ export_pc = "truncate_assignment"
    /\ \/ /\ db' = ExecTruncateAssignment(db)
          /\ tx' = [tx EXCEPT !.store = ExecTruncateAssignment(@)]
          /\ export_pc' = "truncate_file"
          /\ UNCHANGED <<export_args, export_cur, export_ret, export_hist>>
          /\ Executed(Statement("truncate_assignment", <<>>))
       \/ ReturnErr("io")

\* lines 76-79
TruncateAssignment ==
    /\ ExportFrame
    /\ export_pc = "truncate_assignment"
    /\ \/ /\ tx' = [tx EXCEPT !.store = ExecTruncateAssignment(@)]
          /\ export_pc' = "truncate_file"
          /\ UNCHANGED <<db, export_args, export_cur, export_ret, export_hist>>
          /\ Executed(Statement("truncate_assignment", <<>>))
       \/ ReturnErr("io")

\* lines 80-83
TruncateFile ==
    /\ ExportFrame
    /\ export_pc = "truncate_file"
    /\ \/ /\ tx' = [tx EXCEPT !.store = ExecTruncateFile(@)]
          /\ export_pc' = AfterFile(0)
          /\ UNCHANGED <<db, export_args, export_cur, export_ret, export_hist>>
          /\ Executed(Statement("truncate_file", <<>>))
       \/ ReturnErr("io")

\* lines 93-97 and 219-238: the file digest, then the file row
InsertFileData ==
    /\ ExportFrame
    /\ export_pc = "insert_file"
    /\ LET assignment  == CurrentAssignment
           file_digest == ComputeFileDigest(assignment.raw_content)
           published   == FromTimestampMillis(assignment.published_millis)
           done        == IF published.some
                          THEN ExecInsertFile(tx.store, FileRow(published.value, file_digest))
                          ELSE Err(<<"invalid_timestamp">>)
       IN \/ /\ done.ok
             /\ tx' = [tx EXCEPT !.store = done.value]
             /\ export_pc' = "insert_assignment"
             /\ export_cur' = [export_cur EXCEPT
                                  !.todo = KeysInOrder(DOMAIN assignment.entries)]
             /\ UNCHANGED <<db, export_args, export_ret, export_hist>>
             /\ Executed(Statement("insert_file", <<file_digest>>))
          \/ /\ ~done.ok
             /\ ReturnErr(done.error[1])
          \/ /\ published.some
             /\ ReturnErr("io")

\* a variant: the flush after the loop lacks the is_empty test
FlushBatchAlways(batch_data) == Executed(Statement("insert_batch", batch_data))
\* lines 293-302: insert_batch is called with the staged rows when they have reached
\* batch_size, and after the loop when any are left
FlushBatch(batch_data) ==
    IF batch_data # <<>> THEN Executed(Statement("insert_batch", batch_data))
    ELSE UNCHANGED statements

\* lines 99-101 and 255-304: the loop stages rows up to the next insert_batch; with
\* no entry left the function returns Ok
InsertAssignmentData ==
    /\ ExportFrame
    /\ export_pc = "insert_assignment"
    /\ LET assignment  == CurrentAssignment
           file_digest == ComputeFileDigest(assignment.raw_content)
           published   == FromTimestampMillis(assignment.published_millis)
           n           == Min(BatchSize, Len(export_cur.todo))
           chunk       == SubSeq(export_cur.todo, 1, n)
           rest        == SubSeq(export_cur.todo, n + 1, Len(export_cur.todo))
           staged      == \A j \in 1..n : chunk[j] \in DOMAIN assignment.raw_lines
           rows        == [j \in 1..n |-> EntryRow(assignment, published.value,
                                                   file_digest, chunk[j])]
           done        == IF ~published.some THEN Err(<<"invalid_timestamp">>)
                          ELSE IF ~staged THEN Err(<<"no_raw_line">>)
                          ELSE ExecInsertBatch(tx.store, rows)
       IN \/ /\ done.ok
             /\ tx' = [tx EXCEPT !.store = done.value]
             /\ export_cur' = IF rest = <<>>
                              THEN [i |-> export_cur.i + 1, todo |-> <<>>]
                              ELSE [export_cur EXCEPT !.todo = rest]
             /\ export_pc' = IF rest = <<>> THEN AfterFile(export_cur.i)
                             ELSE "insert_assignment"
             /\ UNCHANGED <<db, export_args, export_ret, export_hist>>
             /\ FlushBatch(rows)
          \/ /\ ~done.ok
             /\ ReturnErr(done.error[1])
          \/ /\ done.ok
             /\ n > 0
             /\ ReturnErr("io")

\* a variant: the function returns Ok without transaction.commit(); the dropped
\* transaction is rolled back
CommitOmitted ==
    /\ ExportFrame
    /\ export_pc = "commit"
    /\ tx' = NoTransaction
    /\ export_pc' = "idle"
    /\ export_ret' = [status |-> "ok", cause |-> "none"]
    /\ UNCHANGED <<db, export_args, export_cur, export_hist, statements>>
\* lines 104-109
Commit ==
    /\ ExportFrame
    /\ export_pc = "commit"
    /\ \/ /\ db' = tx.store
          /\ tx' = NoTransaction
          /\ export_pc' = "idle"
          /\ export_ret' = [status |-> "ok", cause |-> "none"]
          /\ UNCHANGED <<export_args, export_cur, export_hist>>
          /\ Executed(Statement("commit", <<>>))
       \/ ReturnErr("io")

\* export_to_postgres called by a caller other than main, with sets the parser
\* did not build: in SetNoRawLine the last key of entries has no raw line, in
\* SetBadTime published_millis is i64::MAX
SetNoRawLine ==
    LET keys == KeysInOrder(DOMAIN SetA.entries)
    IN [SetA EXCEPT !.raw_lines = [k \in DOMAIN SetA.raw_lines \ {keys[Len(keys)]} |->
                                      SetA.raw_lines[k]]]
SetBadTime == [SetB EXCEPT !.published_millis = I64Max]
AnySets == {SetA, SetNoRawLine, SetBadTime}
CallExportToPostgresWithAnySets ==
    /\ export_pc = "idle"
    /\ export_hist.calls < MaxExportCalls
    /\ \E sets \in UNION {[1..n -> AnySets] : n \in 1..MaxFilesToExport}, clear \in BOOLEAN :
          export_args' = [sets |-> sets, clear |-> clear]
    /\ export_pc' = "connect"
    /\ export_ret' = NoReturn
    /\ export_hist' = [before |-> db, calls |-> export_hist.calls + 1]
    /\ statements' = <<>>
    /\ export_cur' = [i |-> 0, todo |-> <<>>]
    /\ UNCHANGED <<db, tx>>
    /\ ExportFrame
ExportAnyNext ==
    \/ CallExportToPostgresWithAnySets
    \/ Connect
    \/ BeginTransaction
    \/ CreateTables
    \/ TruncateAssignment
    \/ TruncateFile
    \/ InsertFileData
    \/ InsertAssignmentData
    \/ Commit

ExportNext ==
    \/ CallExportToPostgres
    \/ Connect
    \/ BeginTransaction
    \/ CreateTables
    \/ TruncateAssignment
    \/ TruncateFile
    \/ InsertFileData
    \/ InsertAssignmentData
    \/ Commit

(***************************************************************************)
(* parse_assignment_string calls: the assignment text is a distribution   *)
(* method followed by at most MaxTokens tokens of SampleTokens, separated  *)
(* by single spaces, as parse_bridge_line hands it over.                   *)
(***************************************************************************)
MaxTokens == 4
SampleTokens == {
    <<"transport", "=", "obfs4">>,
    <<"ip", "=", "192.168.1.1">>,
    <<"blocklist", "=", "ru">>,
    <<"distributed", "=", "true">>,
    <<"distributed", "=", "TRUE">>,
    <<"distributed", "=", "no">>,
    <<"state", "=", "functional">>,
    <<"bandwidth", "=", "high">>,
    <<"ratio", "=", "0.5">>,
    <<"ratio", "=", "abc">>,
    <<"port", "=", "443">>,
    <<"flag">> }

RECURSIVE JoinTokens(_)
JoinTokens(ts) ==
    IF ts = <<>> THEN <<>> ELSE <<" ">> \o ts[1] \o JoinTokens(Tail(ts))
SampleAssignments ==
    {<<"https">> \o JoinTokens(ts) : ts \in UNION {[1..n -> SampleTokens] : n \in 0..MaxTokens}}

NoFields ==
    [distribution_method |-> <<>>,
     transport |-> None, ip |-> None, blocklist |-> None, distributed |-> None,
     state |-> None, bandwidth |-> None, ratio |-> None]

AssignInit ==
    /\ assign_pc = "call"
    /\ assign_arg \in SampleAssignments
    /\ assign_out = NoFields
AssignIdle ==
    /\ assign_pc = "off"
    /\ assign_arg = <<>>
    /\ assign_out = NoFields

\* line 276: parse_assignment_string(assign_arg)
CallParseAssignmentString ==
    /\ assign_pc = "call"
    /\ assign_pc' = "done"
    /\ assign_out' = ParseAssignmentString(assign_arg)
    /\ UNCHANGED <<assign_arg, digest_vars, parse_vars, fetch_vars, export_vars,
                   walk_vars, main_vars, url_vars>>

AssignNext == CallParseAssignmentString

(***************************************************************************)
(* fetch/collector.rs: collect_remote_files and collect_files_from_dir.    *)
(*                                                                         *)
(* The index is a serde_json::Value.  A millisecond timestamp is kept as   *)
(* quotient and remainder by 1000, as in the parser.                       *)
(***************************************************************************)
JNull == [json |-> "null"]
JString(str) == [json |-> "string", str |-> str]
JArray(items) == [json |-> "array", items |-> items]
JObject(fields) == [json |-> "object", fields |-> fields]
\* value["key"]: Null when the value is no object or has no such member
JIndex(v, key) ==
    IF v.json = "object" /\ key \in DOMAIN v.fields THEN v.fields[key] ELSE JNull
\* Value::as_array, Value::as_str
AsArray(v) == IF v.json = "array" THEN Some(v.items) ELSE None
AsStr(v) == IF v.json = "string" THEN Some(v.str) ELSE None
\* Value == &str
JEqStr(v, str) == v.json = "string" /\ v.str = str

\* str::trim_matches(c)
RECURSIVE TrimStartMatches(_, _)
TrimStartMatches(str, c) ==
    IF str # <<>> /\ str[1] = c THEN TrimStartMatches(Tail(str), c) ELSE str
RECURSIVE TrimEndMatches(_, _)
TrimEndMatches(str, c) ==
    IF str # <<>> /\ str[Len(str)] = c
    THEN TrimEndMatches(SubSeq(str, 1, Len(str) - 1), c) ELSE str
TrimMatches(str, c) == TrimEndMatches(TrimStartMatches(str, c), c)

\* the times of day of the index's texts, in seconds since midnight
TimeMins == [t \in {"00:29", "00:30", "00:31"} |->
                IF t = "00:29" THEN 1740 ELSE IF t = "00:30" THEN 1800 ELSE 1860]
\* NaiveDateTime::parse_from_str(s, "%Y-%m-%d %H:%M")
ParseFromStrYmdHm(str) ==
    IF Len(str) = 3 /\ str[1] \in DOMAIN DateDays /\ str[2] = " "
                    /\ str[3] \in DOMAIN TimeMins
    THEN Ok([days |-> DateDays[str[1]], secs |-> TimeMins[str[3]], millis |-> 0])
    ELSE Err(<<"Invalid timestamp">>)
\* a >= b on i64 milliseconds
MillisGe(a, b) == a.q > b.q \/ (a.q = b.q /\ a.r >= b.r)

\* MAX_FILES_TO_FETCH = 100 in the source, lowered so that a directory with more
\* qualifying files is reachable
MaxFilesToFetch == 2

\* a variant: the comparison is strict
QualifiesStrictly(last_modified_ms, min) == ~MillisGe(min, last_modified_ms)
\* line 194
Qualifies(last_modified_ms, min) == MillisGe(last_modified_ms, min)

\* lines 179-197: the loop over the files of the terminal directory
RECURSIVE FilterFiles(_, _, _, _)
FilterFiles(files, k, min, sorted_files) ==
    IF k > Len(files) THEN Ok(sorted_files)
    ELSE LET file_path         == AsStr(JIndex(files[k], "path"))
             last_modified_str == AsStr(JIndex(files[k], "last_modified"))
         IN IF ~file_path.some THEN Err(<<"Missing file path">>)
            ELSE IF ~last_modified_str.some THEN Err(<<"Missing last modified">>)
            ELSE LET last_modified == ParseFromStrYmdHm(last_modified_str.value)
                 IN IF ~last_modified.ok THEN last_modified
                    ELSE LET ms == TimestampMillis(last_modified.value)
                         IN FilterFiles(files, k + 1, min,
                                IF Qualifies(ms, min)
                                THEN Append(sorted_files, <<file_path.value, ms>>)
                                ELSE sorted_files)

\* a variant: the files keep the order of the index
SortOmitted(xs) == xs
\* line 200: sort_by(|a, b| b.1.cmp(&a.1)), a stable sort, newest first
RECURSIVE InsertByNewest(_, _)
InsertByNewest(sorted, x) ==
    IF sorted = <<>> THEN <<x>>
    ELSE IF MillisGe(sorted[1][2], x[2])
         THEN <<sorted[1]>> \o InsertByNewest(Tail(sorted), x)
         ELSE <<x>> \o sorted
RECURSIVE SortByNewest(_)
SortByNewest(xs) ==
    IF xs = <<>> THEN <<>>
    ELSE InsertByNewest(SortByNewest(SubSeq(xs, 1, Len(xs) - 1)), xs[Len(xs)])
\* Iterator::take
Take(xs, n) == SubSeq(xs, 1, Min(n, Len(xs)))

\* a variant: a segment that is not found ends the walk with what it has
DirectoryNotFoundSkipped(part, full_path) == Ok(<<>>)
\* line 212
DirectoryNotFound(part, full_path) == Err(<<"Directory not found", part, full_path>>)

\* lines 164-217: the loop over the segments of the requested directory
RECURSIVE WalkParts(_, _, _, _, _)
WalkParts(dir_path, i, current, full_path, min) ==
    LET dirs == AsArray(current)
        part == dir_path[i]
    IN IF ~dirs.some THEN Err(<<"Expected array of directories">>)
       ELSE LET found == {k \in 1..Len(dirs.value) :
                              JEqStr(JIndex(dirs.value[k], "path"), part)}
            IN IF found = {} THEN DirectoryNotFound(part, full_path)
               ELSE LET next  == dirs.value[CHOOSE k \in found : \A j \in found : k <= j]
                        full  == IF full_path = <<>> THEN part
                                 ELSE full_path \o <<"/">> \o part
                        files == AsArray(JIndex(next, "files"))
                        kept  == FilterFiles(files.value, 1, min, <<>>)
                        taken == Take(SortByNewest(kept.value), MaxFilesToFetch)
                    IN IF i < Len(dir_path)
                       THEN WalkParts(dir_path, i + 1, JIndex(next, "directories"),
                                      full, min)
                       ELSE IF ~files.some THEN Ok(<<>>)
                       ELSE IF ~kept.ok THEN kept
                       ELSE Ok([k \in 1..Len(taken) |->
                                   <<full \o <<"/">> \o taken[k][1], taken[k][2]>>])

\* lines 150-220
CollectFilesFromDir(idx, dir, min) ==
    WalkParts(Split(TrimMatches(dir, "/"), "/"), 1, JIndex(idx, "directories"),
              <<>>, min)

\* a variant: an empty result is returned as it is
CheckNotEmptyOmitted(files) == Ok(files)
\* lines 126-132
CheckNotEmpty(files) ==
    IF files = <<>> THEN Err(<<"No bridge pool assignment files found in directories">>)
    ELSE Ok(files)

(***************************************************************************)
(* collect_remote_files calls.  The index holds directory a with the       *)
(* subdirectory b, whose files are any at most MaxIndexFiles of            *)
(* SampleFiles, and directory c with one file; at most MaxDirs of          *)
(* SampleDirs are requested.                                               *)
(***************************************************************************)
MaxIndexFiles == 3
MaxDirs == 2
IndexDate == "2022-04-09"
FileNode(path, time) ==
    JObject([path |-> JString(<<path>>),
             last_modified |-> JString(<<IndexDate, " ", time>>)])
MillisAt(time) ==
    TimestampMillis([days |-> DateDays[IndexDate], secs |-> TimeMins[time], millis |-> 0])
SampleFiles == {FileNode("f1", "00:29"), FileNode("f2", "00:30"),
                FileNode("f3", "00:31"), FileNode("f4", "00:29:37")}
SampleDirs == {<<"/", "a", "/", "b", "/">>, <<"c">>, <<"a">>,
               <<"x">>, <<"a", "/", "x">>, <<"c", "/", "y">>}
SampleIndex(files) ==
    JObject([directories |-> JArray(<<
        JObject([path |-> JString(<<"a">>),
                 directories |-> JArray(<<
                     JObject([path |-> JString(<<"b">>), files |-> JArray(files)])>>)]),
        JObject([path |-> JString(<<"c">>),
                 files |-> JArray(<<FileNode("g", "00:30")>>)])>>)])

WalkInit ==
    /\ walk_pc = "dirs"
    /\ \E files \in UNION {[1..n -> SampleFiles] : n \in 0..MaxIndexFiles} :
          index = SampleIndex(files)
    /\ remote_directories \in UNION {[1..n -> SampleDirs] : n \in 0..MaxDirs}
    /\ min_last_modified \in {MillisAt("00:29"), MillisAt("00:30")}
    /\ walk_i = 0
    /\ all_files = <<>>
    /\ walk_ret = Err(<<>>)
WalkIdle ==
    /\ walk_pc = "off"
    /\ index = JNull
    /\ remote_directories = <<>>
    /\ min_last_modified = [q |-> 0, r |-> 0]
    /\ walk_i = 0
    /\ all_files = <<>>
    /\ walk_ret = Err(<<>>)

WalkFrame ==
    UNCHANGED <<index, remote_directories, min_last_modified,
                digest_vars, parse_vars, fetch_vars, export_vars, assign_vars,
                main_vars, url_vars>>

\* a variant: a directory whose walk fails is passed over
WalkDirectoryTolerant ==
    /\ walk_pc = "dirs"
    /\ walk_i < Len(remote_directories)
    /\ LET files == CollectFilesFromDir(index, remote_directories[walk_i + 1],
                                        min_last_modified)
       IN all_files' = IF files.ok THEN all_files \o files.value ELSE all_files
    /\ walk_i' = walk_i + 1
    /\ UNCHANGED <<walk_pc, walk_ret>>
    /\ WalkFrame
\* lines 121-125: one iteration of the loop over the requested directories
WalkDirectory ==
    /\ walk_pc = "dirs"
    /\ walk_i < Len(remote_directories)
    /\ LET files == CollectFilesFromDir(index, remote_directories[walk_i + 1],
                                        min_last_modified)
       IN IF files.ok
          THEN /\ all_files' = all_files \o files.value
               /\ walk_i' = walk_i + 1
               /\ UNCHANGED <<walk_pc, walk_ret>>
          ELSE /\ walk_pc' = "returned"
               /\ walk_ret' = WithContext(files, "Failed to collect files from directory")
               /\ UNCHANGED <<all_files, walk_i>>
    /\ WalkFrame

\* lines 126-132: after the loop
ReturnAllFiles ==
    /\ walk_pc = "dirs"
    /\ walk_i = Len(remote_directories)
    /\ walk_pc' = "returned"
    /\ walk_ret' = CheckNotEmpty(all_files)
    /\ UNCHANGED <<all_files, walk_i>>
    /\ WalkFrame

WalkNext == WalkDirectory \/ ReturnAllFiles

(***************************************************************************)
(* main.rs: one run of the pipeline from the fetched files on.  The files  *)
(* are at most MaxContents texts of SampleContents; the store is empty or  *)
(* holds what an earlier run over TextA committed.                         *)
(***************************************************************************)
MaxContents == 2

\* a text without header line, and one whose header line has no time
TextNoHeader == JoinLines(<< <<"005f", " ", "email">> >>)
TextBadHeader == JoinLines(<<
    <<"bridge-pool-assignment", " ", "2022-04-09">>,
    <<"005f", " ", "email">> >>)
SampleContents == {TextA, TextB, TextC, TextD, TextNoHeader, TextBadHeader}

\* the rows export_to_postgres commits for a sequence of sets, over a store
RECURSIVE StoreAfter(_, _)
StoreAfter(store, sets) ==
    IF sets = <<>> THEN store
    ELSE LET a    == sets[1]
             fd   == ComputeFileDigest(a.raw_content)
             pub  == FromTimestampMillis(a.published_millis).value
             keys == KeysInOrder(DOMAIN a.entries)
             s1   == ExecInsertFile([store EXCEPT !.schema = TRUE], FileRow(pub, fd)).value
             s2   == ExecInsertBatch(s1, [j \in 1..Len(keys) |->
                                             EntryRow(a, pub, fd, keys[j])]).value
         IN StoreAfter(s2, Tail(sets))
StoreOfEarlierRun == StoreAfter(EmptyStore, <<SetA>>)

\* a variant: a file that does not parse is left out and the loop goes on
RECURSIVE ParseBridgePoolFilesSkipping(_, _, _)
ParseBridgePoolFilesSkipping(files, i, parsed_assignments) ==
    IF i > Len(files) THEN Ok(parsed_assignments)
    ELSE LET parsed == ParseSingleBridgePoolFile(files[i].content, files[i].raw_content)
         IN ParseBridgePoolFilesSkipping(files, i + 1,
                IF parsed.ok THEN Append(parsed_assignments, parsed.value)
                ELSE parsed_assignments)
\* parse/bridge_pool.rs 37-49: the loop of parse_bridge_pool_files from file i on
RECURSIVE ParseBridgePoolFiles(_, _, _)
ParseBridgePoolFiles(files, i, parsed_assignments) ==
    IF i > Len(files) THEN Ok(parsed_assignments)
    ELSE LET parsed == ParseSingleBridgePoolFile(files[i].content, files[i].raw_content)
         IN IF ~parsed.ok THEN WithContext(parsed, "Failed to parse file")
            ELSE ParseBridgePoolFiles(files, i + 1,
                                      Append(parsed_assignments, parsed.value))

MainInit ==
    /\ main_pc = "parse"
    /\ \E n \in 0..MaxContents : \E texts \in [1..n -> SampleContents] :
          contents = [k \in 1..n |-> BridgePoolFile("f", AsBytes(texts[k]))]
    /\ args \in [clear : BOOLEAN]
    /\ parsed_data = Err(<<>>)
    /\ main_ret = "none"
    /\ db \in {EmptyStore, StoreOfEarlierRun}
    /\ tx = NoTransaction
    /\ export_pc = "idle"
    /\ export_args = [sets |-> <<>>, clear |-> FALSE]
    /\ export_cur = [i |-> 0, todo |-> <<>>]
    /\ export_ret = NoReturn
    /\ export_hist = [before |-> db, calls |-> 0]
    /\ statements = <<>>
MainIdle ==
    /\ main_pc = "off"
    /\ contents = <<>>
    /\ args = [clear |-> FALSE]
    /\ parsed_data = Err(<<>>)
    /\ main_ret = "none"

MainFrame == UNCHANGED <<digest_vars, parse_vars, fetch_vars, assign_vars, walk_vars, url_vars>>

\* main.rs 147: parse_bridge_pool_files(contents)?
MainParse ==
    /\ main_pc = "parse"
    /\ parsed_data' = ParseBridgePoolFiles(contents, 1, <<>>)
    /\ IF parsed_data'.ok
       THEN main_pc' = "export" /\ UNCHANGED main_ret
       ELSE main_pc' = "done" /\ main_ret' = "err"
    /\ UNCHANGED <<contents, args, export_vars>>
    /\ MainFrame

\* main.rs 152: export_to_postgres(parsed_data, &args.db_params, args.clear)
MainCallExport ==
    /\ main_pc = "export"
    /\ export_args' = [sets |-> parsed_data.value, clear |-> args.clear]
    /\ export_pc' = "connect"
    /\ export_ret' = NoReturn
    /\ export_hist' = [before |-> db, calls |-> export_hist.calls + 1]
    /\ statements' = <<>>
    /\ export_cur' = [i |-> 0, todo |-> <<>>]
    /\ main_pc' = "exporting"
    /\ UNCHANGED <<db, tx, contents, args, parsed_data, main_ret>>
    /\ MainFrame

\* main.rs 152-156: `.await?`, then Ok(())
MainReturn ==
    /\ main_pc = "exporting"
    /\ export_pc = "idle"
    /\ export_ret.status # "none"
    /\ main_ret' = export_ret.status
    /\ main_pc' = "done"
    /\ UNCHANGED <<contents, args, parsed_data, export_vars>>
    /\ MainFrame

MainNext ==
    \/ MainParse
    \/ MainCallExport
    \/ Connect
    \/ BeginTransaction
    \/ CreateTables
    \/ TruncateAssignment
    \/ TruncateFile
    \/ InsertFileData
    \/ InsertAssignmentData
    \/ Commit
    \/ MainReturn

(***************************************************************************)
(* One run of main from its start: fetch_bridge_pool_files collects the    *)
(* entries of the requested directories from the index, with               *)
(* min_last_modified = 0, and fetches them; main parses what was fetched   *)
(* and exports it.  The index lists f1, f2, f3 under a/b and g under c.    *)
(***************************************************************************)
RunIndex == SampleIndex(<<FileNode("f1", "00:29"), FileNode("f2", "00:30"),
                          FileNode("f3", "00:31")>>)
RunDirs == {<< <<"a", "/", "b">> >>, << <<"c">> >>, << <<"a", "/", "b">>, <<"c">> >>,
            << <<"c">>, <<"x">> >>}
RunInit ==
    /\ main_pc = "fetch"
    /\ contents = <<>>
    /\ args \in [clear : BOOLEAN]
    /\ parsed_data = Err(<<>>)
    /\ main_ret = "none"
    /\ walk_pc = "dirs"
    /\ index = RunIndex
    /\ remote_directories \in RunDirs
    /\ min_last_modified = [q |-> 0, r |-> 0]
    /\ walk_i = 0
    /\ all_files = <<>>
    /\ walk_ret = Err(<<>>)
    /\ FetchIdle
    /\ ExportIdle

\* collector.rs 53-54 and main.rs 143: collect_remote_files returned an error,
\* which `?` hands on to main's caller
RunDiscoveryFails ==
    /\ main_pc = "fetch"
    /\ walk_pc = "returned"
    /\ ~walk_ret.ok
    /\ main_pc' = "done"
    /\ main_ret' = "err"
    /\ UNCHANGED <<contents, args, parsed_data, export_vars, walk_vars>>
    /\ UNCHANGED <<digest_vars, parse_vars, fetch_vars, assign_vars, url_vars>>

\* collector.rs 55: fetch_file_contents(&base_url, remote_files) is called with
\* the entries collected
RunCallFetchFileContents ==
    /\ main_pc = "fetch"
    /\ walk_pc = "returned"
    /\ walk_ret.ok
    /\ fetch_pc = "off"
    /\ fetch_pc' = "spawning"
    /\ remote_files' = [k \in 1..Len(walk_ret.value) |-> walk_ret.value[k][1]]
    /\ task' = [k \in 1..Len(walk_ret.value) |-> [pc |-> "unspawned", status |-> 0]]
    /\ holds' = [k \in 1..Len(walk_ret.value) |-> FALSE]
    /\ UNCHANGED <<spawned, permits, results, collected, bridge_files, errors, fetch_ret>>
    /\ UNCHANGED <<digest_vars, parse_vars, export_vars, assign_vars, walk_vars, main_vars,
                   url_vars>>

\* collector.rs 58-59 and main.rs 143: the files fetched become main's contents
RunFetchReturns ==
    /\ main_pc = "fetch"
    /\ fetch_pc = "returned"
    /\ contents' = bridge_files
    /\ main_pc' = "parse"
    /\ UNCHANGED <<args, parsed_data, main_ret, export_vars, walk_vars>>
    /\ UNCHANGED <<digest_vars, parse_vars, fetch_vars, assign_vars, url_vars>>

RunNext ==
    \/ WalkDirectory
    \/ ReturnAllFiles
    \/ RunDiscoveryFails
    \/ RunCallFetchFileContents
    \/ FetchNext
    \/ RunFetchReturns
    \/ MainNext

(***************************************************************************)
(* fetch/collector.rs: normalize_url.  A URL is a text over the characters *)
(* "/", "x", ":" of at most MaxUrlLen characters, or one of the two URLs of *)
(* test_normalize_url; normalize_url is applied to it, and then to its own *)
(* result.                                                                 *)
(***************************************************************************)
MaxUrlLen == 4
EndsWith(s, c) == Len(s) > 0 /\ s[Len(s)] = c
\* a variant: the slash is appended without looking at the URL
NormalizeUrlAlwaysAppends(u) == u \o <<"/">>
\* lines 73-79
NormalizeUrl(u) == IF EndsWith(u, "/") THEN u ELSE u \o <<"/">>

TestUrl == <<"h", "t", "t", "p", "s", ":", "/", "/", "example.com">>
SampleUrls == UNION {[1..n -> {"/", "x", ":"}] : n \in 0..MaxUrlLen}
                 \cup {TestUrl, TestUrl \o <<"/">>}
UrlInit ==
    /\ url_pc = "call"
    /\ url \in SampleUrls
    /\ url_out = <<>>
UrlIdle ==
    /\ url_pc = "off"
    /\ url = <<>>
    /\ url_out = <<>>
\* normalize_url(u), then normalize_url of what it returned
CallNormalizeUrl ==
    /\ url_pc = "call"
    /\ url_out' = Append(url_out, NormalizeUrl(IF url_out = <<>> THEN url
                                               ELSE url_out[Len(url_out)]))
    /\ url_pc' = IF Len(url_out) = 1 THEN "done" ELSE "call"
    /\ UNCHANGED <<url, digest_vars, parse_vars, fetch_vars, export_vars, assign_vars,
                   walk_vars, main_vars>>
UrlNext == CallNormalizeUrl

(***************************************************************************)
(* Specifications, one per component.                                      *)
(***************************************************************************)
InitDigest == DigestInit /\ ParseIdle /\ FetchIdle /\ ExportIdle /\ AssignIdle /\ WalkIdle /\ MainIdle /\ UrlIdle
InitParse  == DigestIdle /\ ParseInit /\ FetchIdle /\ ExportIdle /\ AssignIdle /\ WalkIdle /\ MainIdle /\ UrlIdle
InitFetch  == DigestIdle /\ ParseIdle /\ FetchInit /\ ExportIdle /\ AssignIdle /\ WalkIdle /\ MainIdle /\ UrlIdle
InitExport == DigestIdle /\ ParseIdle /\ FetchIdle /\ ExportInit /\ AssignIdle /\ WalkIdle /\ MainIdle /\ UrlIdle
InitAssign == DigestIdle /\ ParseIdle /\ FetchIdle /\ ExportIdle /\ AssignInit /\ WalkIdle /\ MainIdle /\ UrlIdle
InitWalk   == DigestIdle /\ ParseIdle /\ FetchIdle /\ ExportIdle /\ AssignIdle /\ WalkInit /\ MainIdle /\ UrlIdle
InitHeader == DigestIdle /\ HeaderInit /\ FetchIdle /\ ExportIdle /\ AssignIdle /\ WalkIdle /\ MainIdle /\ UrlIdle
InitMain   == DigestIdle /\ ParseIdle /\ FetchIdle /\ AssignIdle /\ WalkIdle /\ MainInit /\ UrlIdle

SpecDigest == InitDigest /\ [][DigestNext]_vars
SpecParse  == InitParse /\ [][ParseNext]_vars
SpecFetch  == InitFetch /\ [][FetchNext]_vars
SpecExport == InitExport /\ [][ExportNext]_vars
SpecAssign == InitAssign /\ [][AssignNext]_vars
SpecWalk   == InitWalk /\ [][WalkNext]_vars
SpecMain   == InitMain /\ [][MainNext]_vars
SpecHeader == InitHeader /\ [][HeaderNext]_vars
InitUrl    == DigestIdle /\ ParseIdle /\ FetchIdle /\ ExportIdle /\ AssignIdle /\ WalkIdle /\ MainIdle /\ UrlInit
SpecUrl    == InitUrl /\ [][UrlNext]_vars
InitRun    == DigestIdle /\ ParseIdle /\ AssignIdle /\ UrlIdle /\ RunInit
SpecRun    == InitRun /\ [][RunNext]_vars

\* The steps fetch_file_contents and the runtime take by themselves, and the steps
\* that are the answer of the peer of entry i.  The runtime runs every spawned
\* task and the semaphore serves its waiters; a peer answers when it chooses to.
\* In SpecFetchLive the peer of the first entry is free never to answer, every
\* other peer answers or fails eventually, and no task panics for ever.
PeerResponds(i) ==
    /\ i \in Entries
    /\ RequestAnswered(i) \/ RequestFailed(i) \/ BodyRead(i) \/ BodyFailed(i)
Scheduled(i) == i \in Entries /\ AcquirePermit(i)
FetchFairness ==
    /\ WF_vars(SpawnTask)
    /\ WF_vars(AwaitJoinAll)
    /\ WF_vars(JoinAllCompletes)
    /\ WF_vars(CollectResult)
    /\ WF_vars(ReturnBridgeFiles)
    /\ \A i \in 1..MaxFiles : SF_vars(Scheduled(i))
    /\ \A i \in 2..MaxFiles : WF_vars(PeerResponds(i))
SpecFetchLive == InitFetch /\ [][FetchNext]_vars /\ FetchFairness
\* In SpecExportAny export_to_postgres is given sets that no parse produced.
SpecExportAny == InitExport /\ [][ExportAnyNext]_vars
\* In SpecFetchCancel the caller may be cancelled while it waits for the tasks.
SpecFetchCancel == InitFetch /\ [][FetchCancelNext]_vars
\* In SpecFetchAnswered every peer answers or fails eventually, the first
\* included; the entries, of any number up to MaxFiles, all name the same path.
InitFetchAnswered == InitFetch /\ \A i \in Entries : remote_files[i] = <<"a">>
SpecFetchAnswered ==
    InitFetchAnswered /\ [][FetchNext]_vars /\ FetchFairness /\ WF_vars(PeerResponds(1))

(***************************************************************************)
(* Properties.                                                             *)
(***************************************************************************)
InFlightCount == Cardinality({i \in Entries : InFlight(i)})

\* C1: in every reachable state of fetch_file_contents, under every interleaving
\* of the spawned tasks, the number of fetches that have issued their request and
\* have not completed is at most the gate size.
C1_AtMostKInFlight == InFlightCount <= SemaphorePermits
\* the gate is full while another spawned task still waits for a permit
C1_Witness ==
    /\ Len(remote_files) > SemaphorePermits
    /\ InFlightCount = SemaphorePermits
    /\ permits = 0
    /\ \E i \in Entries : task[i].pc = "acquire"

\* the sets of one call that export_to_postgres processes, and their rows
FileDigestOf(a) == ComputeFileDigest(a.raw_content)
RowsOfFile(store, a) == {r \in store.file : r.digest = FileDigestOf(a)}
RowsOfEntry(store, a, fp) ==
    {r \in store.entry : r.fingerprint = fp /\ r.bridge_pool_assignments = FileDigestOf(a)}
Exported == {AssignmentsToExport[k] : k \in 1..Len(AssignmentsToExport)}
Returned(status) == export_pc = "idle" /\ export_ret.status = status

\* C2: export_to_postgres is all-or-nothing: until it has returned Ok, and so
\* whenever it returns an error at any step, the store is exactly what it was
\* before the call; rows of files processed earlier in the call are not persisted.
C2_AllOrNothing ==
    export_ret.status \in {"none", "err"} => db = export_hist.before
\* the call failed at its second file, after the first file's rows were written
\* inside the transaction
C2_Witness ==
    /\ Returned("err")
    /\ export_cur.i = 2
    /\ export_args.sets[1].entries # EmptyMap
    /\ RowsOfFile(db, export_args.sets[1]) = {}

\* C3: exporting an AssignmentSet whose rows are already stored (by an earlier
\* call, or earlier in the same call) raises no error of its own, leaves exactly
\* one file row for it and exactly one entry row per entity id of the set, and
\* without clear changes no row that existed before.
C3_IdempotentExport ==
    /\ export_ret.status = "err" => export_ret.cause = "io"
    /\ Returned("ok") =>
          /\ \A a \in Exported :
                /\ Cardinality(RowsOfFile(db, a)) = 1
                /\ \A fp \in DOMAIN a.entries : Cardinality(RowsOfEntry(db, a, fp)) = 1
                /\ Cardinality({r \in db.entry : r.bridge_pool_assignments = FileDigestOf(a)})
                      = Cardinality(DOMAIN a.entries)
          /\ ~export_args.clear =>
                /\ export_hist.before.file \subseteq db.file
                /\ export_hist.before.entry \subseteq db.entry
\* a successful call without clear that exports one set twice, the set having
\* been stored by an earlier call
C3_Witness ==
    /\ Returned("ok")
    /\ ~export_args.clear
    /\ Len(export_args.sets) >= 2
    /\ export_args.sets[1] = export_args.sets[2]
    /\ Cardinality(DOMAIN export_args.sets[1].entries) >= 2
    /\ RowsOfFile(export_hist.before, export_args.sets[1]) # {}
    /\ db = export_hist.before

\* C4: with clear = true the relations are emptied inside the transaction of the
\* inserts: a call that fails leaves every row that existed before it, a call that
\* succeeds leaves only rows written by that call.
C4_ClearInsideTransaction ==
    (export_pc = "idle" /\ export_args.clear) =>
        /\ export_ret.status = "err" =>
              /\ db.file = export_hist.before.file
              /\ db.entry = export_hist.before.entry
        /\ export_ret.status = "ok" =>
              /\ \A r \in db.file :
                    \E k \in 1..Len(export_args.sets) :
                        r.digest = FileDigestOf(export_args.sets[k])
              /\ \A r \in db.entry :
                    \E k \in 1..Len(export_args.sets) :
                        /\ r.bridge_pool_assignments = FileDigestOf(export_args.sets[k])
                        /\ r.fingerprint \in DOMAIN export_args.sets[k].entries
\* a clearing call that failed after both relations had been emptied and a file had
\* been written, over a store that held rows
C4_Witness ==
    /\ Returned("err")
    /\ export_args.clear
    /\ export_cur.i = 2
    /\ export_hist.before.file # {}
    /\ export_hist.before.entry # {}
    /\ db.entry = export_hist.before.entry

\* the store a call starts to write into, and the keys the first sets of a call
\* stand for
StoreAtStart == IF export_args.clear THEN EmptyStore ELSE export_hist.before
FirstSets(n) == {export_args.sets[k] : k \in 1..Min(Len(export_args.sets), n)}
FileKeysOfSets(S) == {FileDigestOf(a) : a \in S}
EntryKeysOfSets(S) ==
    UNION {{ComputeAssignmentDigest(a.raw_lines[fp], FileDigestOf(a)) :
                fp \in DOMAIN a.entries} : a \in S}

\* C21: a call of export_to_postgres that returns Ok has written rows for the
\* first MAX_FILES_TO_EXPORT sets of its input, in input order, and none for a
\* set behind them; it adds at most that many file rows, and a call with more
\* sets than the cap still returns Ok.
C21_CapPerCall ==
    Returned("ok") =>
        /\ FileKeys(db) = FileKeys(StoreAtStart)
                             \cup FileKeysOfSets(FirstSets(MaxFilesToExport))
        /\ EntryKeys(db) = EntryKeys(StoreAtStart)
                              \cup EntryKeysOfSets(FirstSets(MaxFilesToExport))
        /\ Cardinality(db.file \ export_hist.before.file) <= MaxFilesToExport
\* a successful call with more sets than the cap, the set behind the cap being
\* none of the first ones and absent from the store
C21_Witness ==
    /\ Returned("ok")
    /\ Len(export_args.sets) > MaxFilesToExport
    /\ \E k \in (MaxFilesToExport + 1)..Len(export_args.sets) :
          /\ export_args.sets[k] \notin FirstSets(MaxFilesToExport)
          /\ RowsOfFile(db, export_args.sets[k]) = {}
    /\ db.file # {}

\* C30: in every committed state of the store, after any sequence of export
\* calls with any clear flags, every row of the entry relation carries a file
\* digest that is the key of a row of the file relation; the same holds of the
\* open transaction's view after each of its statements (the file row is written
\* before its entry rows, the entry relation is emptied before the file relation).
C30_EntriesReferenceFiles ==
    /\ \A r \in db.entry : r.bridge_pool_assignments \in FileKeys(db)
    /\ tx.open => \A r \in tx.store.entry : r.bridge_pool_assignments \in FileKeys(tx.store)
\* a second call, clearing, has replaced the rows of an earlier call by rows of
\* another file
C30_Witness ==
    /\ Returned("ok")
    /\ export_args.clear
    /\ export_hist.calls = 2
    /\ export_hist.before.entry # {}
    /\ db.entry # {}
    /\ FileKeys(db) \cap FileKeys(export_hist.before) = {}

\* the statements of the call so far, by kind, and the order the kinds follow
StatementOps == [i \in 1..Len(statements) |-> statements[i].op]
Phase(op) ==
    CASE op = "create_tables"       -> 1
      [] op = "truncate_assignment" -> 2
      [] op = "truncate_file"       -> 3
      [] op \in {"insert_file", "insert_batch"} -> 4
      [] op = "commit"              -> 5
OpPositions(op) == {i \in 1..Len(statements) : statements[i].op = op}
\* the digests of the file rows written so far, in the order of their statements
RECURSIVE FilesWritten(_)
FilesWritten(n) ==
    IF n = 0 THEN <<>>
    ELSE IF statements[n].op = "insert_file"
         THEN FilesWritten(n - 1) \o statements[n].arg
         ELSE FilesWritten(n - 1)
FirstFileDigests ==
    [k \in 1..Min(Len(export_args.sets), MaxFilesToExport) |->
        FileDigestOf(export_args.sets[k])]
IsPrefix(s, u) == Len(s) <= Len(u) /\ s = SubSeq(u, 1, Len(s))

\* C28: the statements the store executes for one call of export_to_postgres
\* all run inside the call's one transaction and in a fixed order: the schema
\* first, then, exactly when clear is set, the truncation of the entry relation
\* and of the file relation, then for each assignment set in input order its
\* file row followed by its entry batches, then one commit.  Nothing follows the
\* commit, a call returns Ok exactly when its commit was executed, and a call that
\* returns an error has committed nothing.
C28_OneTransactionFixedOrder ==
    LET ops == StatementOps
        n   == Len(ops)
    IN /\ OpPositions("create_tables") \subseteq {1}
       /\ n >= 1 => ops[1] = "create_tables"
       /\ \A i \in 1..(n - 1) : Phase(ops[i]) <= Phase(ops[i + 1])
       /\ OpPositions("truncate_assignment")
             \subseteq (IF export_args.clear THEN {2} ELSE {})
       /\ OpPositions("truncate_file")
             \subseteq (IF export_args.clear THEN {3} ELSE {})
       /\ (export_args.clear /\ n >= 2) => ops[2] = "truncate_assignment"
       /\ (export_args.clear /\ n >= 3) => ops[3] = "truncate_file"
       /\ IsPrefix(FilesWritten(n), FirstFileDigests)
       /\ \A i \in OpPositions("insert_batch") :
             /\ FilesWritten(i) # <<>>
             /\ \A j \in 1..Len(statements[i].arg) :
                   statements[i].arg[j].bridge_pool_assignments
                       = FilesWritten(i)[Len(FilesWritten(i))]
       /\ OpPositions("commit") \subseteq {n}
       /\ "commit" \in {ops[i] : i \in 1..n} =>
             /\ FilesWritten(n) = FirstFileDigests
             /\ Returned("ok")
       /\ Returned("ok") => (n >= 1 /\ ops[n] = "commit")
       /\ Returned("err") => OpPositions("commit") = {}
       /\ (n >= 1 /\ ops[n] # "commit" /\ export_pc # "idle") => tx.open
       /\ db # export_hist.before => (n >= 1 /\ ops[n] = "commit")
\* a clearing call that wrote two files, the first in two batches, and committed
C28_Witness ==
    /\ Returned("ok")
    /\ export_args.clear
    /\ Len(FilesWritten(Len(statements))) = 2
    /\ Cardinality(OpPositions("insert_batch")) >= 3
    /\ StatementOps[4] = "insert_file"
    /\ StatementOps[5] = "insert_batch"
    /\ StatementOps[6] = "insert_batch"

\* C27: a fetch task owns one permit from before it issues its request until it
\* ends, and gives exactly that permit back when it ends, whether the fetch
\* succeeded, failed or panicked: a task with a request in flight holds a permit,
\* a task that has not acquired or has ended holds none, the permits left and the
\* permits held always add up to K, and when fetch_file_contents returns all K
\* permits are available.
C27_PermitPerTask ==
    /\ \A i \in Entries : InFlight(i) => holds[i]
    /\ \A i \in Entries : holds[i] => InFlight(i)
    /\ permits >= 0
    /\ permits + Cardinality({i \in Entries : holds[i]}) = SemaphorePermits
    /\ fetch_pc = "returned" => permits = SemaphorePermits
\* fetch_file_contents has returned after more tasks than permits, one fetched,
\* one failed and one panicked
C27_Witness ==
    /\ fetch_pc = "returned"
    /\ Len(remote_files) > SemaphorePermits
    /\ \E i, j, k \in Entries :
          task[i].pc = "ok" /\ task[j].pc = "err" /\ task[k].pc = "panicked"
    /\ permits = SemaphorePermits

\* the number of entries whose task ended in one of the given states, per path
TasksEnded(p, pcs) == {i \in Entries : remote_files[i] = p /\ task[i].pc \in pcs}
FilesOf(p) == {k \in 1..Len(bridge_files) : bridge_files[k].path = p}

C6_EntryDigestPerFile ==
    digest_pc = "done" =>
        /\ digest_out.f1 # digest_out.f2 => digest_out.a1 # digest_out.a2
        /\ digest_out.f1 = digest_out.f2 => digest_out.a1 = digest_out.a2
C6_Witness ==
    /\ digest_pc = "done"
    /\ digest_args.line # <<>>
    /\ digest_out.f1 # digest_out.f2
    /\ digest_out.a1 # digest_out.a2

\* C7: compute_file_digest returns equal digests for equal byte sequences,
\* different digests for different byte sequences, and always 64 hexadecimal
\* characters.
C7_FileDigestOfBytes ==
    digest_pc \in {"files", "done"} =>
        /\ (digest_args.b1 = digest_args.b2) <=> (digest_out.f1 = digest_out.f2)
        /\ \A d \in {digest_out.f1, digest_out.f2} :
              Len(d) = 64 /\ \A k \in 1..Len(d) : IsHexChar(d[k])
\* two contents of the same length that differ only after their first byte
C7_Witness ==
    /\ digest_pc = "done"
    /\ Len(digest_args.b1) = 2
    /\ Len(digest_args.b2) = 2
    /\ digest_args.b1[1] = digest_args.b2[1]
    /\ digest_args.b1 # digest_args.b2
    /\ digest_out.f1 # digest_out.f2

\* the header of the parsed content, read off the text
TextLines == LET ls == Lines(content) IN [i \in 1..Len(ls) |-> Trim(ls[i])]
HeaderLike(l) == StartsWith(l, HeaderToken)
NoHeaderLine == \A i \in 1..Len(TextLines) : ~HeaderLike(TextLines[i])
FirstHeaderLine ==
    TextLines[CHOOSE i \in 1..Len(TextLines) :
                  HeaderLike(TextLines[i]) /\ \A j \in 1..(i-1) : ~HeaderLike(TextLines[j])]
HeaderFields == SplitWhitespace(FirstHeaderLine)
ThreeFields == Len(HeaderFields) = 3
DateTimeParses ==
    ThreeFields /\ ParseFromStrYmdHms(HeaderFields[2] \o <<" ">> \o HeaderFields[3]).ok
IsMissingHeader(r) == ~r.ok /\ r.error = <<"No bridge-pool-assignment line found">>
IsMalformedHeader(r) ==
    ~r.ok /\ r.error # <<>> /\ r.error[1] = "Failed to parse bridge-pool-assignment line"

\* C8 as stated: parsing fails exactly when no line (trimmed) starts with the
\* header token, or the first such line does not have exactly three fields or its
\* date and time do not parse.
C8_AsStated ==
    parse_pc = "done" =>
        (~parse_result.ok <=> (NoHeaderLine \/ ~ThreeFields \/ ~DateTimeParses))
\* C8: parsing fails exactly when no line, trimmed of surrounding whitespace,
\* starts with the header token (MissingHeader), or the first such line does not
\* have exactly three whitespace-separated fields, or its first field is not the
\* header token itself, or its date and time do not parse (MalformedHeader); the
\* two failures are told apart by the error.
C8_HeaderFailures ==
    parse_pc = "done" =>
        /\ IsMissingHeader(parse_result) <=> NoHeaderLine
        /\ IsMalformedHeader(parse_result) <=>
              (~NoHeaderLine /\ (~ThreeFields \/ HeaderFields[1] # HeaderToken
                                    \/ ~DateTimeParses))
        /\ ~parse_result.ok <=>
              (IsMissingHeader(parse_result) \/ IsMalformedHeader(parse_result))
        /\ ~(IsMissingHeader(parse_result) /\ IsMalformedHeader(parse_result))
\* a first header line of three fields with a good date and time whose first field
\* only starts with the token
C8_Witness ==
    /\ parse_pc = "done"
    /\ ~NoHeaderLine
    /\ DateTimeParses
    /\ HeaderFields[1] # HeaderToken
    /\ IsMalformedHeader(parse_result)

ValidHeader == ~NoHeaderLine /\ DateTimeParses /\ HeaderFields[1] = HeaderToken
NoSeparator(l) == \A k \in 1..Len(l) : l[k] \notin Whitespace
\* a body line "<id> <payload>": it has a space and is not the header line
WellFormedBody(l) == FirstIn(l, {" "}) > 0 /\ l # FirstHeaderLine
IdOf(l) == SubSeq(l, 1, FirstIn(l, {" "}) - 1)
WellFormedIds == {IdOf(TextLines[i]) : i \in {j \in 1..Len(TextLines) : WellFormedBody(TextLines[j])}}

C10_SameKeys ==
    (parse_pc = "done" /\ parse_result.ok) =>
        DOMAIN parse_result.value.entries = DOMAIN parse_result.value.raw_lines
\* a parsed file with two different lines for one id
C10_Witness ==
    /\ parse_pc = "done"
    /\ parse_result.ok
    /\ \E i, j \in 1..Len(TextLines) :
          /\ WellFormedBody(TextLines[i])
          /\ WellFormedBody(TextLines[j])
          /\ TextLines[i] # TextLines[j]
          /\ IdOf(TextLines[i]) = IdOf(TextLines[j])
    /\ Cardinality(DOMAIN parse_result.value.raw_lines) = 1

\* the last body line of an id, in file order, and the text after its separator
LastLineOf(id) ==
    TextLines[CHOOSE j \in 1..Len(TextLines) :
                  /\ WellFormedBody(TextLines[j]) /\ IdOf(TextLines[j]) = id
                  /\ \A k \in (j+1)..Len(TextLines) :
                        ~(WellFormedBody(TextLines[k]) /\ IdOf(TextLines[k]) = id)]
PayloadOf(l) == SubSeq(l, FirstIn(l, {" "}) + 1, Len(l))

\* C11: when an id occurs on several body lines of one file, the AssignmentSet
\* holds for it the assignment text and the raw line bytes of the last such line
\* in file order, both of the same line, the raw bytes being the bytes of the line
\* without its surrounding whitespace.
C11_LastLineWins ==
    (parse_pc = "done" /\ parse_result.ok) =>
        \A id \in DOMAIN parse_result.value.entries :
            /\ id \in WellFormedIds
            /\ parse_result.value.entries[id] = PayloadOf(LastLineOf(id))
            /\ parse_result.value.raw_lines[id] = AsBytes(LastLineOf(id))
\* two lines of one id with different payloads, the later one written with
\* surrounding whitespace
C11_Witness ==
    /\ parse_pc = "done"
    /\ parse_result.ok
    /\ \E i, j \in 1..Len(TextLines) :
          /\ i < j
          /\ WellFormedBody(TextLines[i])
          /\ WellFormedBody(TextLines[j])
          /\ IdOf(TextLines[i]) = IdOf(TextLines[j])
          /\ PayloadOf(TextLines[i]) # PayloadOf(TextLines[j])
          /\ Lines(content)[j] # TextLines[j]
          /\ parse_result.value.entries[IdOf(TextLines[j])] = PayloadOf(TextLines[j])
          /\ parse_result.value.raw_lines[IdOf(TextLines[j])] = AsBytes(TextLines[j])

\* the tokens of the assignment text after its first token, the tokens of one key
\* among them and the value of the last of these
RestTokens == Tail(Split(assign_arg, " "))
TokensOf(toks, key) ==
    {k \in 1..Len(toks) : Len(toks[k]) >= 2 /\ toks[k][1] = key /\ toks[k][2] = "="}
LastValueOf(toks, key) ==
    LET ks == TokensOf(toks, key)
        k  == CHOOSE k \in ks : \A j \in ks : j <= k
    IN SubSeq(toks[k], 3, Len(toks[k]))
TextFieldOf(toks, key) ==
    IF TokensOf(toks, key) = {} THEN None ELSE Some(LastValueOf(toks, key))
ExampleAssignment ==
    <<"https", " ", "transport", "=", "obfs4", " ", "ip", "=", "192.168.1.1", " ",
      "distributed", "=", "true", " ", "ratio", "=", "0.5">>

\* C12: parse_assignment_string returns the first token as distribution method
\* and, for each of transport, ip, blocklist, distributed, state, bandwidth and
\* ratio, the value of the key=value token of that key; a field whose key does not
\* occur is unset, and tokens with another key or without "=" change nothing.
\* "https transport=obfs4 ip=192.168.1.1 distributed=true ratio=0.5" gives https,
\* obfs4, 192.168.1.1, true, 0.5 and leaves blocklist, state and bandwidth unset.
C12_AssignmentFields ==
    assign_pc = "done" =>
        LET toks == RestTokens
        IN /\ assign_out.distribution_method = Split(assign_arg, " ")[1]
           /\ \A key \in {"transport", "ip", "blocklist", "state", "bandwidth"} :
                 assign_out[key] = TextFieldOf(toks, key)
           /\ assign_out.distributed =
                 IF TokensOf(toks, "distributed") = {} THEN None
                 ELSE Some(LastValueOf(toks, "distributed") \in {<<"true">>, <<"TRUE">>})
           /\ TokensOf(toks, "ratio") = {} => assign_out.ratio = None
           /\ (TokensOf(toks, "ratio") # {} /\ LastValueOf(toks, "ratio") = <<"0.5">>) =>
                 assign_out.ratio = Some(<<1, 2>>)
           /\ assign_arg = ExampleAssignment =>
                 assign_out = [distribution_method |-> <<"https">>,
                               transport   |-> Some(<<"obfs4">>),
                               ip          |-> Some(<<"192.168.1.1">>),
                               blocklist   |-> None,
                               distributed |-> Some(TRUE),
                               state       |-> None,
                               bandwidth   |-> None,
                               ratio       |-> Some(<<1, 2>>)]
\* the example text has been decomposed
C12_Witness ==
    /\ assign_pc = "done"
    /\ assign_arg = ExampleAssignment
    /\ assign_out.transport = Some(<<"obfs4">>)
    /\ assign_out.ratio = Some(<<1, 2>>)
    /\ assign_out.state = None

\* the files the index lists for a/b, and what the walk of "/a/b/" alone has
\* collected
DirB == <<"/", "a", "/", "b", "/">>
FilesOfB == JIndex(JIndex(JIndex(index, "directories").items[1],
                          "directories").items[1], "files").items
NameOfB(k) == <<"a", "/", "b", "/">> \o FilesOfB[k].fields.path.str
MillisOfB(k) ==
    TimestampMillis(ParseFromStrYmdHm(FilesOfB[k].fields.last_modified.str).value)
QualifyingOfB == {k \in 1..Len(FilesOfB) : MillisGe(MillisOfB(k), min_last_modified)}
WalkedBAlone == walk_pc # "off" /\ walk_i = 1 /\ remote_directories[1] = DirB
CountIn(xs, x) == Cardinality({k \in 1..Len(xs) : xs[k] = x})

\* C13: the walk of one directory returns a file of the terminal node only if its
\* last-modified time in epoch milliseconds is >= min_last_modified, and, when
\* the cap is not exceeded, returns every such file; of two files with T1 < T2
\* and min_last_modified = T2 only the T2 file is returned.
C13_FreshnessFilter ==
    /\ \A k \in 1..Len(all_files) : MillisGe(all_files[k][2], min_last_modified)
    /\ WalkedBAlone =>
          /\ \A e \in 1..Len(all_files) :
                \E k \in QualifyingOfB : all_files[e] = <<NameOfB(k), MillisOfB(k)>>
          /\ Cardinality(QualifyingOfB) <= MaxFilesToFetch =>
                \A k \in QualifyingOfB :
                    \E e \in 1..Len(all_files) : all_files[e] = <<NameOfB(k), MillisOfB(k)>>
          /\ (FilesOfB = <<FileNode("f1", "00:29"), FileNode("f2", "00:30")>>
                 /\ min_last_modified = MillisAt("00:30")) =>
                all_files = << <<NameOfB(2), MillisAt("00:30")>> >>
\* two files T1 < T2 walked with min_last_modified = T2
C13_Witness ==
    /\ WalkedBAlone
    /\ FilesOfB = <<FileNode("f1", "00:29"), FileNode("f2", "00:30")>>
    /\ min_last_modified = MillisAt("00:30")
    /\ Len(all_files) = 1
    /\ all_files[1][1] = <<"a", "/", "b", "/", "f2">>

\* the directory paths of the index
PresentPaths == {<<<<"a">>>>, <<<<"a">>, <<"b">>>>, <<<<"c">>>>}
SegmentMissing(dir) == Split(TrimMatches(dir, "/"), "/") \notin PresentPaths

\* C14: when a segment of a requested directory is not among the directory nodes
\* at its level of the index (first, middle or last segment), the walk of that
\* directory is an error: the loop never gets past it and collect_remote_files
\* returns the error, no list.
C14_MissingSegmentFails ==
    walk_pc # "off" =>
        /\ \A k \in 1..Len(remote_directories) :
              SegmentMissing(remote_directories[k]) =>
                  /\ ~CollectFilesFromDir(index, remote_directories[k],
                                          min_last_modified).ok
                  /\ walk_i < k
        /\ (walk_pc = "returned"
               /\ \E k \in 1..Len(remote_directories) :
                     SegmentMissing(remote_directories[k])) => ~walk_ret.ok
\* the first directory gave entries, the second lacks its last segment, and the
\* call returned the error
C14_Witness ==
    /\ walk_pc = "returned"
    /\ Len(remote_directories) = 2
    /\ remote_directories[2] = <<"a", "/", "x">>
    /\ walk_i = 1
    /\ all_files # <<>>
    /\ ~walk_ret.ok
    /\ walk_ret.error[2] = "Directory not found"

\* the entries of the first k requested directories, in requested order
RECURSIVE EntriesOfDirs(_)
EntriesOfDirs(k) ==
    IF k = 0 THEN <<>>
    ELSE EntriesOfDirs(k - 1)
            \o CollectFilesFromDir(index, remote_directories[k], min_last_modified).value
EveryDirWalks ==
    \A k \in 1..Len(remote_directories) :
        CollectFilesFromDir(index, remote_directories[k], min_last_modified).ok

\* C15: collect_remote_files returns the filtered entries of the requested
\* directories concatenated in requested order; when there is none (no directory
\* requested, or no directory yields a qualifying file) it returns an error,
\* never an empty list.
C15_UnionOrError ==
    walk_pc = "returned" =>
        /\ walk_ret.ok =>
              /\ EveryDirWalks
              /\ walk_ret.value = EntriesOfDirs(Len(remote_directories))
              /\ walk_ret.value # <<>>
        /\ (EveryDirWalks /\ EntriesOfDirs(Len(remote_directories)) = <<>>) =>
              /\ ~walk_ret.ok
              /\ walk_ret.error[1] = "No bridge pool assignment files found in directories"
        /\ (EveryDirWalks /\ EntriesOfDirs(Len(remote_directories)) # <<>>) => walk_ret.ok
\* two requested directories that walk and yield no qualifying file
C15_Witness ==
    /\ walk_pc = "returned"
    /\ Len(remote_directories) = 2
    /\ walk_i = 2
    /\ FilesOfB # <<>>
    /\ DirB \in {remote_directories[1], remote_directories[2]}
    /\ ~walk_ret.ok
    /\ walk_ret.error = <<"No bridge pool assignment files found in directories">>

ReturnedOfB(k) == CountIn(all_files, <<NameOfB(k), MillisOfB(k)>>)
ListedOfB(k) ==
    Cardinality({j \in QualifyingOfB :
                    NameOfB(j) = NameOfB(k) /\ MillisOfB(j) = MillisOfB(k)})

\* C16: a directory with more qualifying files than the cap yields exactly cap
\* entries, none older than a qualifying file that was left out; a directory
\* with at most cap qualifying files yields all of them.
C16_NewestWithinCap ==
    WalkedBAlone =>
        /\ Len(all_files) = Min(MaxFilesToFetch, Cardinality(QualifyingOfB))
        /\ \A k \in QualifyingOfB :
              /\ ReturnedOfB(k) <= ListedOfB(k)
              /\ ReturnedOfB(k) < ListedOfB(k) =>
                    \A e \in 1..Len(all_files) : MillisGe(all_files[e][2], MillisOfB(k))
              /\ Cardinality(QualifyingOfB) <= MaxFilesToFetch =>
                    ReturnedOfB(k) = ListedOfB(k)
\* more qualifying files than the cap, listed oldest first: the oldest is left out
C16_Witness ==
    /\ WalkedBAlone
    /\ Cardinality(QualifyingOfB) > MaxFilesToFetch
    /\ Len(all_files) = MaxFilesToFetch
    /\ \A k \in 2..Len(FilesOfB) : ~MillisGe(MillisOfB(1), MillisOfB(k))
    /\ ReturnedOfB(1) = 0

\* line 287: the components of the value fetch_file_contents returns to its caller
FetchFileContentsReturns == Ok([files |-> bridge_files])

\* C17 as stated: fetch_file_contents returns the fetched files together with the
\* count of failed fetches, the two adding up to the number of entries.
C17_AsStated ==
    fetch_pc = "returned" =>
        /\ FetchFileContentsReturns.ok
        /\ "failures" \in DOMAIN FetchFileContentsReturns.value
        /\ Len(FetchFileContentsReturns.value.files)
              + FetchFileContentsReturns.value.failures = Len(remote_files)

\* C18 as stated: an entry whose response has a status outside 200..299 yields no
\* file and is counted as an error.
C18_AsStated ==
    fetch_pc = "returned" =>
        /\ \A i \in Entries :
              (task[i].status # 0 /\ task[i].status \notin 200..299) =>
                  results[i].kind # "ok"
        /\ errors >= Cardinality({i \in Entries :
                         task[i].status # 0 /\ task[i].status \notin 200..299})

\* C19 as stated: the raw_content of every fetched file is the byte sequence of
\* the response body, and so the file digest is the hash of the body.
C19_AsStated ==
    fetch_pc = "returned" =>
        \A i \in Entries :
            results[i].kind = "ok" =>
                /\ results[i].file.raw_content
                      = ServedBody(remote_files[i], task[i].status)
                /\ ComputeFileDigest(results[i].file.raw_content)
                      = ComputeFileDigest(ServedBody(remote_files[i], task[i].status))

\* C20 as stated: every fetch ends within a deadline, so fetch_file_contents
\* returns even when a peer never answers.
C20_AsStated == <>(fetch_pc = "returned")

\* the position of the header line: the first line that starts with the token
HeaderIndex ==
    CHOOSE i \in 1..Len(TextLines) :
        HeaderLike(TextLines[i]) /\ \A j \in 1..(i - 1) : ~HeaderLike(TextLines[j])

\* C24 as stated: only lines that come after the header line contribute: every
\* key of entries and of raw_lines is the id of a body line behind the header
\* line, and a line that precedes the header line adds nothing.
C24_AsStated ==
    (parse_pc = "done" /\ parse_result.ok) =>
        \A id \in DOMAIN parse_result.value.entries \cup DOMAIN parse_result.value.raw_lines :
            \E j \in (HeaderIndex + 1)..Len(TextLines) :
                WellFormedBody(TextLines[j]) /\ IdOf(TextLines[j]) = id

\* what parse_single_bridge_pool_file makes of the k-th fetched file alone
ParsedAlone(k) == ParseSingleBridgePoolFile(contents[k].content, contents[k].raw_content)
SomeFileFails == \E k \in 1..Len(contents) : ~ParsedAlone(k).ok

\* C22: when parsing of any one fetched file fails (missing or malformed header)
\* the run aborts as a whole: parse_bridge_pool_files returns an error and no
\* assignment set, whatever the other files are, main returns the error, export
\* is never started and the store stays as it was.
C22_ParseFailureAbortsRun ==
    (main_pc \notin {"off", "parse"} /\ SomeFileFails) =>
        /\ ~parsed_data.ok
        /\ "value" \notin DOMAIN parsed_data
        /\ parsed_data.error[1] = "Failed to parse file"
        /\ main_pc = "done"
        /\ main_ret = "err"
        /\ export_hist.calls = 0
        /\ export_pc = "idle"
        /\ statements = <<>>
        /\ ~tx.open
        /\ db = export_hist.before
\* a run over a valid file with entries followed by a file without header, over
\* a store that holds rows
C22_Witness ==
    /\ main_pc = "done"
    /\ Len(contents) = 2
    /\ ParsedAlone(1).ok
    /\ ParsedAlone(1).value.entries # EmptyMap
    /\ ~ParsedAlone(2).ok
    /\ ParsedAlone(2).error = <<"No bridge-pool-assignment line found">>
    /\ db = StoreOfEarlierRun
    /\ main_ret = "err"

\* the statements of the k-th file of the call: its file row is at FileStatement(k),
\* its batches follow up to the next file row or the commit
FileStatement(k) ==
    CHOOSE i \in OpPositions("insert_file") :
        Cardinality({j \in OpPositions("insert_file") : j <= i}) = k
FilesStarted == Cardinality(OpPositions("insert_file"))
BlockEnd(k) ==
    IF k < FilesStarted THEN FileStatement(k + 1) - 1
    ELSE IF OpPositions("commit") # {} THEN Len(statements) - 1
    ELSE Len(statements)
BatchesOf(k) == SubSeq(statements, FileStatement(k) + 1, BlockEnd(k))
BlockComplete(k) == k < FilesStarted \/ export_pc = "commit" \/ Returned("ok")
RECURSIVE RowsOf(_)
RowsOf(batches) == IF batches = <<>> THEN <<>> ELSE batches[1].arg \o RowsOf(Tail(batches))
Ceil(n, d) == (n + d - 1) \div d

\* C29: insert_assignment_data submits one row per entry of the assignment set,
\* in statements of at most batch_size rows: no statement carries zero rows, no
\* entry is submitted twice, and once the set is done every entry has been
\* submitted in exactly one statement, ceil(n / batch_size) statements for a set
\* of n entries.
C29_BatchesCoverEntries ==
    \A k \in 1..FilesStarted :
        LET a       == export_args.sets[k]
            batches == BatchesOf(k)
            rows    == RowsOf(batches)
            fps     == {rows[j].fingerprint : j \in 1..Len(rows)}
        IN /\ \A b \in 1..Len(batches) :
                 /\ batches[b].op = "insert_batch"
                 /\ Len(batches[b].arg) \in 1..BatchSize
           /\ \A j \in 1..Len(rows) :
                 /\ rows[j].fingerprint \in DOMAIN a.entries
                 /\ rows[j].bridge_pool_assignments = FileDigestOf(a)
                 /\ rows[j].digest =
                       ComputeAssignmentDigest(a.raw_lines[rows[j].fingerprint],
                                               FileDigestOf(a))
           /\ Cardinality(fps) = Len(rows)
           /\ BlockComplete(k) =>
                 /\ fps = DOMAIN a.entries
                 /\ Len(batches) = Ceil(Cardinality(DOMAIN a.entries), BatchSize)
\* a committed call whose first set took a full batch and a partial one and whose
\* second set has no entry and took no statement
C29_Witness ==
    /\ Returned("ok")
    /\ FilesStarted = 2
    /\ Cardinality(DOMAIN export_args.sets[1].entries) = BatchSize + 1
    /\ Len(BatchesOf(1)) = 2
    /\ export_args.sets[2].entries = EmptyMap
    /\ BatchesOf(2) = <<>>

\* the lines of the k-th fetched file without their surrounding whitespace, the
\* text of a line before its first whitespace and the text behind that whole run
FileLines(k) == LET ls == Lines(contents[k].content) IN [i \in 1..Len(ls) |-> Trim(ls[i])]
BeforeRun(l) == SubSeq(l, 1, FirstIn(l, Whitespace) - 1)
AfterRun(l) == TrimStart(SubSeq(l, FirstIn(l, Whitespace) + 1, Len(l)))
SeparatedLines(k) ==
    {i \in 1..Len(FileLines(k)) :
        /\ FirstIn(FileLines(k)[i], Whitespace) > 0
        /\ ~StartsWith(FileLines(k)[i], HeaderToken)
        /\ \A j \in (i + 1)..Len(FileLines(k)) :
              BeforeRun(FileLines(k)[j]) # BeforeRun(FileLines(k)[i])}

\* C25 as stated: a body line whose id and payload are separated by a run of
\* whitespace (one space, several spaces, a tab) is persisted under the id before
\* the run with the first token behind the run as its distribution method, and
\* no persisted distribution method is empty.
C25_AsStated ==
    /\ \A r \in db.entry : r.distribution_method # <<>>
    /\ main_ret = "ok" =>
          \A k \in 1..Len(contents) : \A i \in SeparatedLines(k) :
              \E r \in db.entry :
                  /\ r.fingerprint = BeforeRun(FileLines(k)[i])
                  /\ r.bridge_pool_assignments = ComputeFileDigest(contents[k].raw_content)
                  /\ r.distribution_method = SplitWhitespace(AfterRun(FileLines(k)[i]))[1]

\* the boolean literals of str::parse::<bool>
BoolLiterals == {<<"true">>, <<"false">>}

\* C26 as stated: a ratio value that is no 32-bit float and a distributed value
\* that is no boolean literal leave that field unset, every other field of the
\* line is parsed all the same, and the persisted distributed column is true
\* only when the field was parsed as true.
C26_AsStated ==
    assign_pc = "done" =>
        LET toks == RestTokens
        IN /\ (TokensOf(toks, "ratio") # {} /\ ~ParseF32(LastValueOf(toks, "ratio")).ok) =>
                 assign_out.ratio = None
           /\ (TokensOf(toks, "distributed") # {}
                 /\ LastValueOf(toks, "distributed") \notin BoolLiterals) =>
                 assign_out.distributed = None
           /\ \A key \in {"transport", "ip", "blocklist", "state", "bandwidth"} :
                 assign_out[key] = TextFieldOf(toks, key)
           /\ UnwrapOr(assign_out.distributed, FALSE) =>
                 (TokensOf(toks, "distributed") # {}
                    /\ LastValueOf(toks, "distributed") = <<"true">>)

\* the day after a date, for the dates of the model that have one in the model
NextDay == [d \in {"2022-04-09", "2022-04-30", "2022-12-31", "2024-02-28", "2024-02-29"} |->
    CASE d = "2022-04-09" -> "2022-04-10"
      [] d = "2022-04-30" -> "2022-05-01"
      [] d = "2022-12-31" -> "2023-01-01"
      [] d = "2024-02-28" -> "2024-02-29"
      [] d = "2024-02-29" -> "2024-03-01"]
ExampleHeader == HeaderToken \o <<" ", "2022-04-09", " ", "00:29:37">>

\* C23: "bridge-pool-assignment 2022-04-09 00:29:37" parses to 1649464177000;
\* the date and time of a valid header are read as UTC and converted to epoch
\* milliseconds, so that published_millis is a multiple of 1000, and the header
\* of the next day at the same time gives a value larger by exactly 86400000.
C23_PublishedMillis ==
    parse_pc = "line_done" =>
        /\ content = ExampleHeader => parse_result = Ok([q |-> 1649464177, r |-> 0])
        /\ parse_result.ok <=> content[3] \in DOMAIN YmdOf
        /\ parse_result.ok => parse_result.value.r = 0
        /\ content[3] = "1970-01-01" =>
              parse_result.value.q = HmsOf[content[5]][1] * 3600 + HmsOf[content[5]][2] * 60
                                        + HmsOf[content[5]][3]
        /\ content[3] \in DOMAIN NextDay =>
              LET later == ParseBridgePoolAssignmentLine(
                               HeaderToken \o <<" ", NextDay[content[3]], " ", content[5]>>)
              IN /\ later.ok
                 /\ later.value.q = parse_result.value.q + 86400
                 /\ later.value.r = parse_result.value.r
\* the header of the last day of February in a leap year has been parsed
C23_Witness ==
    /\ parse_pc = "line_done"
    /\ content = HeaderToken \o <<" ", "2024-02-29", " ", "23:59:59">>
    /\ parse_result.ok
    /\ parse_result.value.q = 1709251199

\* C40: normalize_url returns a URL that ends with "/" as it is and any other
\* URL with a single "/" appended; what it returns always ends with "/", and
\* applying it to its own result changes nothing.
C40_NormalizeUrl ==
    /\ Len(url_out) >= 1 =>
          /\ EndsWith(url, "/") => url_out[1] = url
          /\ ~EndsWith(url, "/") =>
                /\ Len(url_out[1]) = Len(url) + 1
                /\ SubSeq(url_out[1], 1, Len(url)) = url
          /\ url_out[1][Len(url_out[1])] = "/"
          /\ url = TestUrl => url_out[1] = TestUrl \o <<"/">>
          /\ url = TestUrl \o <<"/">> => url_out[1] = TestUrl \o <<"/">>
    /\ Len(url_out) = 2 => url_out[2] = url_out[1]
\* a URL of several slashes went through both calls and kept all of them
C40_Witness ==
    /\ url_pc = "done"
    /\ url = <<"x", "/", "/">>
    /\ url_out = <<url, url>>

\* the four (raw line, file digest) pairs digested, and the digest of each
DigestedPairs ==
    {[raw_line |-> digest_args.line,  file_digest |-> digest_out.f1, digest |-> digest_out.a1],
     [raw_line |-> digest_args.line,  file_digest |-> digest_out.f2, digest |-> digest_out.a2],
     [raw_line |-> digest_args.line2, file_digest |-> digest_out.f1, digest |-> digest_out.a3],
     [raw_line |-> digest_args.line2, file_digest |-> digest_out.f2, digest |-> digest_out.a4]}
\* what the hasher has absorbed for a pair: rawLine ++ fileDigest
HashedInput(p) == Sha256Update(Sha256Update(Sha256New, p.raw_line), HexAsBytes(p.file_digest))
IsHexByte(b) == b[1] = "utf8-hex"

\* C36: two entries have the same digest only if they have the same raw line
\* bytes and the same file digest: every file digest is 64 hex characters, so
\* the hashed input rawLine ++ fileDigest ends with the digest in its last 64
\* bytes, and it is equal for two pairs only when both components are equal.
C36_EntryDigestInjective ==
    digest_pc = "done" =>
        /\ \A p \in DigestedPairs : Len(p.file_digest) = 64
        /\ \A p \in DigestedPairs :
              LET h == HashedInput(p)
              IN /\ Len(h) = Len(p.raw_line) + 64
                 /\ SubSeq(h, 1, Len(h) - 64) = p.raw_line
                 /\ SubSeq(h, Len(h) - 63, Len(h)) = HexAsBytes(p.file_digest)
        /\ \A p, q \in DigestedPairs :
              HashedInput(p) = HashedInput(q) =>
                  p.raw_line = q.raw_line /\ p.file_digest = q.file_digest
        /\ \A p, q \in DigestedPairs :
              p.digest = q.digest =>
                  p.raw_line = q.raw_line /\ p.file_digest = q.file_digest
\* two different files and two different lines, one of them text that reads
\* like the start of the other file's digest, gave four different digests
C36_Witness ==
    /\ digest_pc = "done"
    /\ digest_out.f1 # digest_out.f2
    /\ digest_args.line # <<>>
    /\ digest_args.line2 = HexAsBytes(SubSeq(digest_out.f2, 1, 2))
    /\ Cardinality({p.digest : p \in DigestedPairs}) = 4

\* the requested directories whose walk fails, and those that yield entries
FailingDirs == {k \in 1..Len(remote_directories) :
                   ~CollectFilesFromDir(index, remote_directories[k], min_last_modified).ok}
YieldingDirs == {k \in 1..Len(remote_directories) :
                    LET files == CollectFilesFromDir(index, remote_directories[k],
                                                     min_last_modified)
                    IN files.ok /\ files.value # <<>>}
MissingDirs == {k \in 1..Len(remote_directories) : SegmentMissing(remote_directories[k])}

\* C37: when several directories are requested and one of them is not found,
\* collect_remote_files returns an error and no entries, whether the directory
\* that is not found comes before or after directories with qualifying files:
\* the error is that of the first requested directory that fails, under the
\* context of the failed directory ("Directory not found", or "Expected array of
\* directories" when the level above the missing segment holds no directories).
C37_OneMissingDirectoryFailsAll ==
    (walk_pc = "returned" /\ Len(remote_directories) >= 2 /\ MissingDirs # {}) =>
        LET first == CHOOSE k \in FailingDirs : \A j \in FailingDirs : k <= j
        IN /\ MissingDirs \subseteq FailingDirs
           /\ ~walk_ret.ok
           /\ "value" \notin DOMAIN walk_ret
           /\ walk_ret.error[1] = "Failed to collect files from directory"
           /\ Tail(walk_ret.error)
                 = CollectFilesFromDir(index, remote_directories[first],
                                       min_last_modified).error
           /\ first \in MissingDirs =>
                 walk_ret.error[2] \in {"Directory not found", "Expected array of directories"}
\* the first requested directory is not found, the second holds qualifying
\* files, and the call returned the error
C37_Witness ==
    /\ walk_pc = "returned"
    /\ Len(remote_directories) = 2
    /\ MissingDirs = {1}
    /\ YieldingDirs = {2}
    /\ ~walk_ret.ok
    /\ walk_ret.error[2] = "Directory not found"

\* the files of the entries 1..n whose fetch succeeded, in the order of the entries
RECURSIVE FetchedUpTo(_)
FetchedUpTo(n) ==
    IF n = 0 THEN <<>>
    ELSE IF task[n].pc = "ok"
         THEN Append(FetchedUpTo(n - 1),
                     BridgePoolFile(remote_files[n], ServedBody(remote_files[n], task[n].status)))
         ELSE FetchedUpTo(n - 1)
PathsOf(files) == [k \in 1..Len(files) |-> files[k].path]

\* C38: the list fetch_file_contents returns is the entry list in its original
\* order without the entries whose fetch failed, whatever the order in which the
\* fetches completed.
C38_ReturnedInEntryOrder ==
    /\ fetch_pc \in {"collecting", "returned"} =>
          /\ Len(results) = Len(remote_files)
          /\ \A i \in Entries : results[i].entry = i
          /\ bridge_files = FetchedUpTo(collected)
    /\ fetch_pc = "returned" => bridge_files = FetchedUpTo(Len(remote_files))
\* the entries were b, an entry that failed, and a; the list returned is b, a
C38_Witness ==
    /\ fetch_pc = "returned"
    /\ remote_files = << <<"b">>, <<"a">>, <<"a">> >>
    /\ task[1].pc = "ok" /\ task[2].pc = "err" /\ task[3].pc = "ok"
    /\ PathsOf(bridge_files) = << <<"b">>, <<"a">> >>

\* C31: each file of the result carries the path of the entry its task was
\* spawned for, and its content is the text read from the response to the request
\* for that path, whatever the order in which the fetches completed: what the
\* server holds for another path is never attached to it.
C31_FileOfItsEntry ==
    fetch_pc \in {"collecting", "returned"} =>
        /\ \A i \in Entries :
              results[i].kind = "ok" =>
                  /\ results[i].file.path = remote_files[i]
                  /\ results[i].file.content
                        = DecodeLossy(ServedBody(remote_files[i], task[i].status))
                  /\ task[i].status = 200 =>
                        \A p \in Paths \ {remote_files[i]} :
                            results[i].file.content # DecodeLossy(ServedBody(p, 200))
        /\ \A k \in 1..Len(bridge_files) :
              \E i \in Entries : results[i].kind = "ok" /\ bridge_files[k] = results[i].file
\* entries a and b were both fetched with status 200 after a third entry failed
C31_Witness ==
    /\ fetch_pc = "returned"
    /\ Len(bridge_files) = 2
    /\ bridge_files[1].path = <<"a">> /\ bridge_files[1].content = <<"A">>
    /\ bridge_files[2].path = <<"b">> /\ bridge_files[2].content = <<"B", "U+FFFD">>
    /\ errors = 1

\* C32: fetch_file_contents reads the results, and returns, only after every
\* task it spawned has finished (with a file, an error or a panic): from then on
\* no task waits for a permit, has a request in flight or holds a permit; and
\* main parses and exports only after the call returned, with no fetch running.
C32_AllTasksJoined ==
    /\ fetch_pc \in {"collecting", "returned"} =>
        /\ spawned = Len(remote_files)
        /\ \A i \in Entries : Finished(i) /\ ~InFlight(i) /\ ~holds[i]
        /\ Len(results) = Len(remote_files)
    /\ (main_pc # "fetch" \/ export_pc # "idle") =>
        /\ fetch_pc \in {"off", "returned"}
        /\ \A i \in Entries : Finished(i) /\ ~InFlight(i) /\ ~holds[i]
\* the call returned after more tasks than permits, the last of them panicked
C32_Witness ==
    /\ main_pc = "done" /\ main_ret = "ok" /\ export_hist.calls = 1
    /\ fetch_pc = "returned"
    /\ Len(remote_files) > SemaphorePermits
    /\ task[Len(remote_files)].pc = "panicked"
    /\ \E i \in Entries : task[i].pc = "ok"

\* C34: when every issued request completes, with success or failure,
\* fetch_file_contents returns with every entry attempted exactly once:
\* eventually the call has returned and every task has finished, so that no task
\* is left waiting for a permit; a task issues its request only from that wait,
\* and once it has left the wait it never goes back to it.
C34_EveryEntryAttempted ==
    /\ <>(fetch_pc = "returned" /\ \A i \in Entries : Finished(i))
    /\ [][\A i \in Entries :
             /\ (task[i].pc # "request" /\ task'[i].pc = "request") => task[i].pc = "acquire"
             /\ task[i].pc \notin {"unspawned", "acquire"} => task'[i].pc # "acquire"]_vars
\* more entries than permits, and the call returned with every one attempted
C34_Witness ==
    /\ fetch_pc = "returned"
    /\ Len(remote_files) > SemaphorePermits
    /\ \A i \in Entries : task[i].pc \in {"ok", "err"}
    /\ \E i \in Entries : task[i].pc = "err"

\* C33 as stated: once the caller of the fetch stage is cancelled, a task that
\* has not acquired a permit never issues its request, and no file is returned
\* for a fetch whose body was not read to its end.
C33_AsStated ==
    /\ [](fetch_pc = "cancelled" => (bridge_files = <<>> /\ fetch_ret = "none"))
    /\ [][fetch_pc = "cancelled" =>
             \A i \in Entries : task[i].pc = "acquire" => task'[i].pc = "acquire"]_vars

\* the exported sets in which a key of entries has no raw line, or whose
\* published_millis chrono cannot represent
LacksRawLine(a) == DOMAIN a.entries \ DOMAIN a.raw_lines # {}
Unrepresentable(a) == a.published_millis = I64Max
InvalidSets == {k \in 1..Len(AssignmentsToExport) :
                   LacksRawLine(AssignmentsToExport[k]) \/ Unrepresentable(AssignmentsToExport[k])}

\* C39: an export call whose sets include one in which a key of entries has no
\* raw line, or whose published_millis is not a representable timestamp, returns
\* an error and leaves the store as it was before the call: nothing of that set
\* and nothing of the sets before it is persisted, and no commit is executed.
C39_InvalidSetPersistsNothing ==
    (export_pc = "idle" /\ export_hist.calls > 0 /\ InvalidSets # {}) =>
        /\ export_ret.status = "err"
        /\ db = export_hist.before
        /\ ~tx.open
        /\ \A s \in 1..Len(statements) : statements[s].op # "commit"
        /\ Cardinality(OpPositions("insert_file"))
              <= (CHOOSE k \in InvalidSets : \A j \in InvalidSets : k <= j)
\* the second set lacks a raw line: the call wrote the first set and a batch of
\* the second inside the transaction, returned the error, and the store is as
\* before
C39_Witness ==
    /\ export_pc = "idle"
    /\ export_args.sets = <<SetA, SetNoRawLine>>
    /\ export_ret = [status |-> "err", cause |-> "no_raw_line"]
    /\ Cardinality(OpPositions("insert_batch")) = 3
    /\ db = export_hist.before

\* the sets of the run that are not wholly in the store: the file row or the row
\* of an entry is missing
NotStored(store) ==
    {k \in 1..Len(parsed_data.value) :
        LET a == parsed_data.value[k]
        IN \/ RowsOfFile(store, a) = {}
           \/ \E fp \in DOMAIN a.entries : RowsOfEntry(store, a, fp) = {}}

\* C35 as stated: when a run ends successfully, the store holds the file row and
\* every entry row of every file that was discovered, fetched and parsed.
C35_AsStated ==
    (main_pc = "done" /\ main_ret = "ok") => NotStored(db) = {}

====
